---- MODULE Spec2Model ----
(***************************************************************************)
(* awless: template execution and revert.                                  *)
(*                                                                         *)
(* A template (an ordered list of statements) is run statement by          *)
(* statement against the AWS drivers; the run is recorded and persisted    *)
(* under a revert id.  The `revert REVERTID` command loads a record,       *)
(* builds the reverted template, prints it and runs it.                    *)
(***************************************************************************)
EXTENDS Integers, Sequences, FiniteSets, TLC

(***************************************************************************)
(* Bounds of the model.                                                    *)
(***************************************************************************)
MaxStmts == 3

(***************************************************************************)
(* Data: concrete data handed to and returned by drivers.                  *)
(***************************************************************************)
Nil == [t |-> "nil", s |-> "", n |-> 0]
Str(s) == [t |-> "str", s |-> s, n |-> 0]
ResId(entity, n) == [t |-> "id", s |-> entity, n |-> n]
Output(op) == [t |-> "out", s |-> op, n |-> 0]

(***************************************************************************)
(* Parameter values of the template language.                              *)
(***************************************************************************)
Lit(d) == [kind |-> "lit", name |-> "", d |-> d]
RefValue(x) == [kind |-> "ref", name |-> x, d |-> Nil]
AliasValue(a) == [kind |-> "alias", name |-> a, d |-> Nil]
HoleValue(h) == [kind |-> "hole", name |-> h, d |-> Nil]

Action == {"none", "create", "delete", "start", "stop", "update", "attach", "check", "detach"}
Entity == {"none", "vpc", "subnet", "instance", "volume", "tag", "user", "group", "role",
           "policy", "keypair", "securitygroup", "internetgateway", "routetable", "route",
           "bucket", "storageobject", "subscription", "topic", "queue", "loadbalancer"}

Expr(action, entity, params) ==
    [id |-> "", action |-> action, entity |-> entity, params |-> params]
Declaration(ident, action, entity, params) ==
    [id |-> ident, action |-> action, entity |-> entity, params |-> params]

Get(params, k) == IF k \in DOMAIN params THEN params[k] ELSE Nil
Restrict(params, keys) == [k \in (DOMAIN params) \cap keys |-> params[k]]

(***************************************************************************)
(* The platform: each SDK operation either succeeds or returns an error.   *)
(***************************************************************************)
PlatformOutcomes == {"ok", "error"}
Call(op, input, out) == [op |-> op, input |-> input, out |-> out]
DriverOk(result, calls, created) ==
    [err |-> FALSE, result |-> result, calls |-> calls, created |-> created]
DriverErr(calls, created) ==
    [err |-> TRUE, result |-> Nil, calls |-> calls, created |-> created]

(***************************************************************************)
(* Drivers.  params: resolved parameter map; o, o2: the outcomes of the    *)
(* platform operations the driver invokes; n: the number the platform      *)
(* gives to the next resource it creates.                                  *)
(***************************************************************************)
\* variant: the error of the platform operation is not checked
CreateReturnUnchecked(out, entity, n) ==
    DriverOk(ResId(entity, n), <<>>, IF out = "ok" THEN {ResId(entity, n)} ELSE {})

\* variant: the whole output is returned instead of the identifier of the new resource
CreateReturnOutput(out, entity, n) ==
    IF out = "ok" THEN DriverOk(Output("CreateOutput"), <<>>, {ResId(entity, n)})
                  ELSE DriverErr(<<>>, {})

CreateReturn(out, entity, n) ==
    IF out = "ok" THEN DriverOk(ResId(entity, n), <<>>, {ResId(entity, n)})
                  ELSE DriverErr(<<>>, {})
\* variant: the error of the platform operation is not checked
OutputReturnUnchecked(out, op) == DriverOk(Output(op), <<>>, {})

OutputReturn(out, op) ==
    IF out = "ok" THEN DriverOk(Output(op), <<>>, {}) ELSE DriverErr(<<>>, {})
EchoReturn(out, id) ==
    IF out = "ok" THEN DriverOk(id, <<>>, {}) ELSE DriverErr(<<>>, {})
WithCalls(r, calls) == [r EXCEPT !.calls = calls]

\* variant: a failed CreateVpc is attempted a second time
Create_VpcRetry(params, o, o2, n) ==
    IF o = "ok"
    THEN WithCalls(CreateReturn(o, "vpc", n),
                   <<Call("CreateVpc", Restrict(params, {"cidr"}), o)>>)
    ELSE WithCalls(CreateReturn(o2, "vpc", n),
                   <<Call("CreateVpc", Restrict(params, {"cidr"}), o),
                     Call("CreateVpc", Restrict(params, {"cidr"}), o2)>>)

Create_Vpc(params, o, o2, n) ==
    WithCalls(CreateReturn(o, "vpc", n),
              <<Call("CreateVpc", Restrict(params, {"cidr"}), o)>>)

\* variant: the identifier is read from another parameter key
DeleteInputName(params) == Restrict(params, {"name"})

DeleteInput(params) == Restrict(params, {"id"})

Delete_Vpc(params, o, o2, n) ==
    WithCalls(OutputReturn(o, "DeleteVpcOutput"),
              <<Call("DeleteVpc", DeleteInput(params), o)>>)

Create_Subnet(params, o, o2, n) ==
    WithCalls(CreateReturn(o, "subnet", n),
              <<Call("CreateSubnet", Restrict(params, {"cidr", "vpc", "zone"}), o)>>)

Update_Subnet(params, o, o2, n) ==
    WithCalls(OutputReturn(o, "ModifySubnetAttributeOutput"),
              <<Call("ModifySubnetAttribute", Restrict(params, {"id", "public"}), o)>>)

Delete_Subnet(params, o, o2, n) ==
    WithCalls(OutputReturn(o, "DeleteSubnetOutput"),
              <<Call("DeleteSubnet", DeleteInput(params), o)>>)

Create_Instance(params, o, o2, n) ==
    LET run == Call("RunInstances",
                    Restrict(params, {"image", "count", "type", "subnet", "key", "ip",
                                      "userdata", "group", "lock"}), o)
        tags == Call("CreateTags", [resource |-> ResId("instance", n),
                                    Name |-> Get(params, "name")], o2)
    IN  IF o # "ok" THEN DriverErr(<<run>>, {})
        ELSE IF "name" \in DOMAIN params
             THEN IF o2 # "ok" THEN DriverErr(<<run, tags>>, {ResId("instance", n)})
                  ELSE DriverOk(ResId("instance", n), <<run, tags>>, {ResId("instance", n)})
             ELSE DriverOk(ResId("instance", n), <<run>>, {ResId("instance", n)})

Update_Instance(params, o, o2, n) ==
    WithCalls(OutputReturn(o, "ModifyInstanceAttributeOutput"),
              <<Call("ModifyInstanceAttribute",
                     Restrict(params, {"id", "type", "group", "lock"}), o)>>)

Delete_Instance(params, o, o2, n) ==
    WithCalls(OutputReturn(o, "TerminateInstancesOutput"),
              <<Call("TerminateInstances", DeleteInput(params), o)>>)

Start_Instance(params, o, o2, n) ==
    WithCalls(EchoReturn(o, Get(params, "id")),
              <<Call("StartInstances", Restrict(params, {"id"}), o)>>)

Stop_Instance(params, o, o2, n) ==
    WithCalls(EchoReturn(o, Get(params, "id")),
              <<Call("StopInstances", Restrict(params, {"id"}), o)>>)

Attach_Volume(params, o, o2, n) ==
    WithCalls(EchoReturn(o, Get(params, "id")),
              <<Call("AttachVolume", Restrict(params, {"device", "id", "instance"}), o)>>)

Create_User(params, o, o2, n) ==
    WithCalls(CreateReturn(o, "user", n),
              <<Call("CreateUser", Restrict(params, {"name"}), o)>>)

Delete_User(params, o, o2, n) ==
    WithCalls(OutputReturn(o, "DeleteUserOutput"),
              <<Call("DeleteUser", Restrict(params, {"name"}), o)>>)

(***************************************************************************)
(* The driver registry: every pair of action and entity that has a driver  *)
(* method, and a dry-run method of the same name.                          *)
(***************************************************************************)
Registry ==
    {<<"create", "vpc">>, <<"delete", "vpc">>,
     <<"create", "subnet">>, <<"update", "subnet">>, <<"delete", "subnet">>,
     <<"create", "instance">>, <<"update", "instance">>, <<"delete", "instance">>,
     <<"start", "instance">>, <<"stop", "instance">>,
     <<"create", "securitygroup">>, <<"delete", "securitygroup">>,
     <<"create", "volume">>, <<"delete", "volume">>, <<"attach", "volume">>,
     <<"create", "internetgateway">>, <<"delete", "internetgateway">>,
     <<"attach", "internetgateway">>, <<"detach", "internetgateway">>,
     <<"create", "routetable">>, <<"delete", "routetable">>,
     <<"attach", "routetable">>, <<"detach", "routetable">>,
     <<"create", "route">>, <<"delete", "route">>,
     <<"delete", "keypair">>,
     <<"create", "loadbalancer">>, <<"delete", "loadbalancer">>,
     <<"create", "listener">>, <<"delete", "listener">>,
     <<"create", "user">>, <<"delete", "user">>,
     <<"attach", "user">>, <<"detach", "user">>,
     <<"create", "group">>, <<"delete", "group">>,
     <<"create", "bucket">>, <<"delete", "bucket">>,
     <<"delete", "storageobject">>,
     <<"create", "topic">>, <<"delete", "topic">>,
     <<"create", "subscription">>, <<"delete", "subscription">>,
     <<"create", "queue">>, <<"delete", "queue">>}

\* the drivers the templates of the model reach
Drivers ==
    {<<"create", "vpc">>, <<"delete", "vpc">>,
     <<"create", "subnet">>, <<"update", "subnet">>, <<"delete", "subnet">>,
     <<"create", "instance">>, <<"update", "instance">>, <<"delete", "instance">>,
     <<"start", "instance">>, <<"stop", "instance">>,
     <<"attach", "volume">>, <<"create", "user">>, <<"delete", "user">>}

CallDriver(action, entity, params, o, o2, n) ==
    CASE <<action, entity>> = <<"create", "vpc">> -> Create_Vpc(params, o, o2, n)
      [] <<action, entity>> = <<"delete", "vpc">> -> Delete_Vpc(params, o, o2, n)
      [] <<action, entity>> = <<"create", "subnet">> -> Create_Subnet(params, o, o2, n)
      [] <<action, entity>> = <<"update", "subnet">> -> Update_Subnet(params, o, o2, n)
      [] <<action, entity>> = <<"delete", "subnet">> -> Delete_Subnet(params, o, o2, n)
      [] <<action, entity>> = <<"create", "instance">> -> Create_Instance(params, o, o2, n)
      [] <<action, entity>> = <<"update", "instance">> -> Update_Instance(params, o, o2, n)
      [] <<action, entity>> = <<"delete", "instance">> -> Delete_Instance(params, o, o2, n)
      [] <<action, entity>> = <<"start", "instance">> -> Start_Instance(params, o, o2, n)
      [] <<action, entity>> = <<"stop", "instance">> -> Stop_Instance(params, o, o2, n)
      [] <<action, entity>> = <<"attach", "volume">> -> Attach_Volume(params, o, o2, n)
      [] <<action, entity>> = <<"create", "user">> -> Create_User(params, o, o2, n)
      [] <<action, entity>> = <<"delete", "user">> -> Delete_User(params, o, o2, n)

(***************************************************************************)
(* Template inputs.                                                        *)
(***************************************************************************)
Identifiers == {"x", "y"}

StatementPool ==
    { Declaration("x", "create", "vpc", [cidr |-> Lit(Str("10.0.0.0/24"))]),
      Declaration("y", "create", "subnet",
                  [vpc |-> RefValue("x"), cidr |-> Lit(Str("10.0.1.0/24"))]),
      Declaration("x", "create", "subnet",
                  [vpc |-> RefValue("x"), cidr |-> Lit(Str("10.0.1.0/24"))]),
      Expr("create", "subnet", [vpc |-> RefValue("y"), cidr |-> Lit(Str("10.0.1.0/24"))]),
      Expr("update", "subnet", [id |-> RefValue("y"), public |-> Lit(Str("true"))]),
      Expr("start", "instance", [id |-> HoleValue("h")]),
      Declaration("x", "create", "instance",
                  [image |-> Lit(Str("ami-1")), count |-> Lit(Str("1")),
                   type |-> Lit(Str("t2.micro")), subnet |-> AliasValue("a"),
                   name |-> Lit(Str("web"))]),
      Expr("delete", "vpc", [id |-> RefValue("x")]),
      Expr("check", "instance", [id |-> RefValue("x")]),
      Expr("stop", "instance", [id |-> RefValue("x")]) }

Templates == UNION { [1..n -> StatementPool] : n \in 1..MaxStmts }

\* templates of one statement that has an inverse, for the runs that are reverted
InversePool ==
    { Declaration("x", "create", "vpc", [cidr |-> Lit(Str("10.0.0.0/24"))]),
      Expr("start", "instance", [id |-> Lit(Str("i-1"))]),
      Expr("attach", "volume", [id |-> Lit(Str("vol-1")), instance |-> Lit(Str("i-1")),
                                device |-> Lit(Str("/dev/sdh"))]),
      Declaration("x", "create", "user", [name |-> Lit(Str("web"))]) }
InverseTemplates == { <<st>> : st \in InversePool }

\* answers of the alias collaborator and of the hole filler (Nil: not found / declined)
AliasAnswers == {Nil, Str("subnet-7")}
FillerAnswers == {Nil, Str("i-7")}

(***************************************************************************)
(* State.                                                                  *)
(***************************************************************************)
VARIABLES
    pc,          \* position of the running command
    tpl,         \* the template being run
    pos,         \* number of statements of tpl already executed
    env,         \* Environment of the run: declared identifier -> result
    executed,    \* ExecutionRecord of the run in progress
    dispatched,  \* driver dispatches of the run in progress
    resources,   \* resources existing on the platform
    nextId,      \* number the platform gives to the next created resource
    db,          \* execution-history store: revert id -> persisted record
    args,        \* arguments of the revert command
    dbOpen,      \* the history database is open
    tplExec,     \* record loaded by the revert command
    reverted,    \* template built by the revert command
    diagnostics, \* number of diagnostics emitted by Revert
    corrupted,   \* the stored record was damaged after it was persisted
    events,      \* steps performed by the revert command, in order
    outcome,     \* how the last command ended
    input,       \* text handed to the parser
    tokens32,    \* token tree of the parser after Parse
    parseErr,    \* Parse returned an error
    callbacks,   \* builder callbacks replayed by Execute, in order
    built,       \* Template built from the callbacks
    rendered,    \* text rendering of a Template
    reparsed,    \* Template parsed from the rendering
    target,      \* the struct whose fields setFieldWithType sets
    setCall      \* the latest call of setFieldWithType

vars == <<pc, tpl, pos, env, executed, dispatched, resources, nextId, db, args,
          dbOpen, tplExec, reverted, diagnostics, corrupted, events, outcome,
          input, tokens32, parseErr, callbacks, built, rendered, reparsed,
          target, setCall>>

engineVars == <<tpl, pos, env, executed, dispatched, resources, nextId>>
revertVars == <<args, dbOpen, tplExec, reverted, diagnostics, events>>
parseVars == <<input, tokens32, parseErr, callbacks, built, rendered, reparsed>>
fieldVars == <<target, setCall>>

(***************************************************************************)
(* Resolution Environment.                                                 *)
(***************************************************************************)
NewEnv == [x \in {} |-> Nil]

Resolved(d) == [ok |-> TRUE, d |-> d, err |-> ""]
Unresolved(err) == [ok |-> FALSE, d |-> Nil, err |-> err]

\* variant: a missing binding is read as the zero value
LookupUnchecked(e, x) == Resolved(IF x \in DOMAIN e THEN e[x] ELSE Nil)

Lookup(e, x) ==
    IF x \in DOMAIN e THEN Resolved(e[x]) ELSE Unresolved("UnresolvedReference")

ResolveValue(v, e, al, fl) ==
    CASE v.kind = "lit" -> Resolved(v.d)
      [] v.kind = "ref" -> Lookup(e, v.name)
      [] v.kind = "alias" -> IF al # Nil THEN Resolved(al) ELSE Unresolved("UnresolvedAlias")
      [] v.kind = "hole" -> IF fl # Nil THEN Resolved(fl) ELSE Unresolved("UnresolvedHole")

ResolveParams(params, e, al, fl) ==
    LET bad == {k \in DOMAIN params : ~ResolveValue(params[k], e, al, fl).ok}
        good == (DOMAIN params) \ bad
    IN  [ok |-> bad = {},
         err |-> IF bad = {} THEN ""
                 ELSE ResolveValue(params[CHOOSE k \in bad : TRUE], e, al, fl).err,
         data |-> [k \in good |-> ResolveValue(params[k], e, al, fl).d]]

Bind(e, ident, result) ==
    [x \in (DOMAIN e) \cup {ident} |-> IF x = ident THEN result ELSE e[x]]

(***************************************************************************)
(* Execution Engine.                                                       *)
(***************************************************************************)
Captured(data) == [k \in DOMAIN data |-> Lit(data[k])]

\* variant: the parameters are recorded as written in the statement
EntryRaw(st, data, result, err) ==
    [stmt |-> st, params |-> st.params, result |-> result,
     ok |-> (err = ""), err |-> err]

Entry(st, data, result, err) ==
    [stmt |-> st, params |-> Captured(data), result |-> result,
     ok |-> (err = ""), err |-> err]

Dispatch(index, st, data, r) ==
    [index |-> index, action |-> st.action, entity |-> st.entity, params |-> data,
     calls |-> r.calls, created |-> r.created, result |-> r.result, err |-> r.err]

EvalStatement(index, st, e, al, fl, o, o2, n) ==
    LET rp == ResolveParams(st.params, e, al, fl)
        r == CallDriver(st.action, st.entity, rp.data, o, o2, n)
    IN  IF ~rp.ok
        THEN [entry |-> Entry(st, rp.data, Nil, rp.err), env |-> e,
              dispatch |-> <<>>, created |-> {}, deleted |-> {}]
        ELSE IF <<st.action, st.entity>> \notin Drivers
        THEN [entry |-> Entry(st, rp.data, Nil, "DriverNotFound"), env |-> e,
              dispatch |-> <<>>, created |-> {}, deleted |-> {}]
        ELSE IF r.err
        THEN [entry |-> Entry(st, rp.data, Nil, "DriverError"), env |-> e,
              dispatch |-> <<Dispatch(index, st, rp.data, r)>>, created |-> r.created,
              deleted |-> {}]
        ELSE [entry |-> Entry(st, rp.data, r.result, ""),
              env |-> IF st.id # "" THEN Bind(e, st.id, r.result) ELSE e,
              dispatch |-> <<Dispatch(index, st, rp.data, r)>>, created |-> r.created,
              deleted |-> IF st.action = "delete" THEN {Get(rp.data, "id")} ELSE {}]

\* exitOn(err): the process exits with status 1 when err is set
ExitOn(err) == IF err THEN "exit1" ELSE "ok"

RunOver(entry, p, t) == ~entry.ok \/ p = Len(t)

Persist(store, record) == Append(store, record)

ExecStatement ==
    /\ pc \in {"run", "exec"}
    /\ pos < Len(tpl)
    /\ \E al \in AliasAnswers, fl \in FillerAnswers, o \in PlatformOutcomes,
          o2 \in PlatformOutcomes :
          LET r == EvalStatement(pos + 1, tpl[pos + 1], env, al, fl, o, o2, nextId)
              record == Append(executed, r.entry)
          IN  /\ executed' = record
              /\ env' = r.env
              /\ pos' = pos + 1
              /\ dispatched' = dispatched \o r.dispatch
              /\ resources' = (resources \cup r.created) \ r.deleted
              /\ nextId' = nextId + Cardinality(r.created)
              /\ IF RunOver(r.entry, pos + 1, tpl)
                 THEN /\ db' = Persist(db, record)
                      /\ pc' = IF pc = "run" THEN "idle" ELSE "exit"
                      /\ outcome' = ExitOn(~r.entry.ok)
                 ELSE /\ UNCHANGED <<db, pc, outcome>>
    /\ UNCHANGED <<fieldVars, tpl, revertVars, corrupted,
                   parseVars>>

(***************************************************************************)
(* Revert Generator.                                                       *)
(***************************************************************************)
\* variant: update is taken to be invertible
HasInverseUpdate(action) ==
    action \in {"create", "start", "stop", "attach", "detach", "update"}

HasInverse(action) == action \in {"create", "start", "stop", "attach", "detach"}

InverseAction(action) ==
    CASE action = "create" -> "delete"
      [] action = "start" -> "stop"
      [] action = "stop" -> "start"
      [] action = "attach" -> "detach"
      [] action = "detach" -> "attach"
      [] OTHER -> "none"

Reverse(s) == [i \in 1..Len(s) |-> s[Len(s) + 1 - i]]

IsOk(entry) == entry.ok
IsInvertible(entry) == HasInverse(entry.stmt.action)
IsSkipped(entry) == ~HasInverse(entry.stmt.action)

\* variant: failed entries are kept
SuccessfulAll(record) == record

Successful(record) == SelectSeq(record, IsOk)
\* variant: execution order is kept
OrderedUnreversed(record) == Successful(record)

Ordered(record) == Reverse(Successful(record))

InverseParams(entry) ==
    IF entry.stmt.action = "create" THEN [id |-> Lit(entry.result)] ELSE entry.params

InverseStatement(entry) ==
    Expr(InverseAction(entry.stmt.action), entry.stmt.entity, InverseParams(entry))

IsCorrupt(entry) ==
    \E k \in DOMAIN InverseParams(entry) : InverseParams(entry)[k].kind # "lit"

Revert(record) ==
    LET inv == SelectSeq(Ordered(record), IsInvertible)
        bad == \E i \in DOMAIN inv : IsCorrupt(inv[i])
    IN  [err |-> bad,
         tpl |-> IF bad THEN <<>> ELSE [i \in DOMAIN inv |-> InverseStatement(inv[i])],
         diags |-> Len(SelectSeq(Ordered(record), IsSkipped))]

(***************************************************************************)
(* The revert command.                                                     *)
(***************************************************************************)
ArgChoices == {<<>>, <<1>>, <<2>>}

\* the stored record is damaged on disk before it is read
CorruptRecord ==
    /\ pc = "idle"
    /\ ~corrupted
    /\ corrupted' = TRUE
    /\ \E i \in DOMAIN db[1] : \E k \in DOMAIN db[1][i].params :
          db' = [db EXCEPT ![1][i].params[k] = RefValue("x")]
    /\ UNCHANGED <<fieldVars, pc, engineVars, revertVars, outcome,
                   parseVars>>

RunE_Args ==
    /\ pc = "idle"
    /\ \E a \in ArgChoices :
          /\ args' = a
          /\ IF Len(a) < 1
             THEN pc' = "exit" /\ outcome' = "error"
             ELSE pc' = "opendb" /\ outcome' = "running"
    /\ UNCHANGED <<fieldVars, engineVars, db, dbOpen, tplExec, reverted, diagnostics, events, corrupted,
                   parseVars>>

RunE_Current ==
    /\ pc = "opendb"
    /\ \E err \in BOOLEAN :
          IF err
          THEN /\ pc' = "exit" /\ outcome' = ExitOn(TRUE)
               /\ UNCHANGED <<dbOpen, events>>
          ELSE /\ pc' = "load" /\ dbOpen' = TRUE
               /\ events' = Append(events, "open")
               /\ UNCHANGED outcome
    /\ UNCHANGED <<fieldVars, engineVars, db, args, tplExec, reverted, diagnostics, corrupted,
                   parseVars>>

GetTemplateExecution(store, revertId) ==
    IF revertId \in DOMAIN store
    THEN [err |-> FALSE, record |-> store[revertId]]
    ELSE [err |-> TRUE, record |-> <<>>]

\* variant: exitOn(err) comes before dbclose()
RunE_LoadExitFirst ==
    /\ pc = "load"
    /\ LET got == GetTemplateExecution(db, args[1])
       IN  /\ tplExec' = got.record
           /\ IF got.err
              THEN /\ pc' = "exit" /\ outcome' = ExitOn(TRUE)
                   /\ events' = events \o <<"load">>
                   /\ UNCHANGED dbOpen
              ELSE /\ pc' = "revert" /\ UNCHANGED outcome
                   /\ events' = events \o <<"load", "close">>
                   /\ dbOpen' = FALSE
    /\ UNCHANGED <<fieldVars, engineVars, db, args, reverted, diagnostics, corrupted,
                   parseVars>>

\* variant: the error of GetTemplateExecution is not checked
RunE_LoadNoExit ==
    /\ pc = "load"
    /\ tplExec' = GetTemplateExecution(db, args[1]).record
    /\ dbOpen' = FALSE
    /\ events' = events \o <<"load", "close">>
    /\ pc' = "revert"
    /\ UNCHANGED <<fieldVars, engineVars, db, args, reverted, diagnostics, corrupted, outcome,
                   parseVars>>

RunE_Load ==
    /\ pc = "load"
    /\ LET got == GetTemplateExecution(db, args[1])
       IN  /\ tplExec' = got.record
           /\ dbOpen' = FALSE
           /\ events' = events \o <<"load", "close">>
           /\ IF got.err
              THEN pc' = "exit" /\ outcome' = ExitOn(TRUE)
              ELSE pc' = "revert" /\ UNCHANGED outcome
    /\ UNCHANGED <<fieldVars, engineVars, db, args, reverted, diagnostics, corrupted,
                   parseVars>>

RunE_Revert ==
    /\ pc = "revert"
    /\ LET r == Revert(tplExec)
       IN  /\ reverted' = r.tpl
           /\ diagnostics' = r.diags
           /\ events' = Append(events, "revert")
           /\ IF r.err
              THEN pc' = "exit" /\ outcome' = ExitOn(TRUE)
              ELSE pc' = "print" /\ UNCHANGED outcome
    /\ UNCHANGED <<fieldVars, engineVars, db, args, dbOpen, tplExec, corrupted,
                   parseVars>>

RunE_Print ==
    /\ pc = "print"
    /\ events' = Append(events, "print")
    /\ pc' = "runTemplate"
    /\ UNCHANGED <<fieldVars, engineVars, db, args, dbOpen, tplExec, reverted, diagnostics, corrupted,
                   outcome,
                   parseVars>>

RunE_RunTemplate ==
    /\ pc = "runTemplate"
    /\ tpl' = reverted
    /\ env' = NewEnv
    /\ pos' = 0
    /\ executed' = <<>>
    /\ dispatched' = <<>>
    /\ events' = Append(events, "execute")
    /\ IF Len(reverted) = 0
       THEN /\ db' = Persist(db, <<>>)
            /\ pc' = "exit"
            /\ outcome' = ExitOn(FALSE)
       ELSE /\ pc' = "exec"
            /\ UNCHANGED <<db, outcome>>
    /\ UNCHANGED <<fieldVars, resources, nextId, args, dbOpen, tplExec, reverted, diagnostics,
                   corrupted,
                   parseVars>>

(***************************************************************************)
(* Specification.                                                          *)
(***************************************************************************)
(***************************************************************************)
(* setFieldWithType: the drivers fill the input of a platform operation    *)
(* with it, one field at a time.                                           *)
(***************************************************************************)
MaxCalls == 3

IntVal(n) == [t |-> "int", s |-> "", n |-> n]
BoolVal(b) == [t |-> "bool", s |-> IF b THEN "true" ELSE "false", n |-> 0]

\* the fields of the struct and the destination type each is set with
FieldTypes ==
    [Field |-> "awsstr", IntField |-> "awsint", BoolField |-> "awsbool",
     BooleanValueField |-> "awsboolattribute",
     StringValueField |-> "awsstringattribute"]

NewStruct ==
    [Field |-> Str("initial"), IntField |-> IntVal(0), BoolField |-> BoolVal(FALSE),
     BooleanValueField |-> Nil, StringValueField |-> Nil]

FieldValues == {Nil, Str("abcd"), Str("5"), Str("true"), IntVal(5), BoolVal(TRUE), BoolVal(FALSE)}

Numbers == [x \in {"5"} |-> 5]

\* the value as the destination type holds it
Convert(v, destType) ==
    CASE destType \in {"awsstr", "awsstringattribute"} ->
            [err |-> FALSE,
             d |-> CASE v.t = "int" -> Str("5")
                     [] v.t = "bool" -> Str(v.s)
                     [] OTHER -> v]
      [] destType = "awsint" ->
            CASE v.t = "int" -> [err |-> FALSE, d |-> v]
              [] v.t = "str" /\ v.s \in DOMAIN Numbers ->
                    [err |-> FALSE, d |-> IntVal(Numbers[v.s])]
              [] OTHER -> [err |-> TRUE, d |-> Nil]
      [] OTHER ->
            CASE v.t = "bool" -> [err |-> FALSE, d |-> v]
              [] v.t = "str" /\ v.s \in {"true", "false"} ->
                    [err |-> FALSE, d |-> BoolVal(v.s = "true")]
              [] OTHER -> [err |-> TRUE, d |-> Nil]

\* variant: a nil value sets the field to the zero value of its type
setFieldWithTypeZero(v, i, fieldPath, destType) ==
    IF i = Nil THEN [err |-> FALSE, i |-> i]
    ELSE IF v = Nil THEN [err |-> FALSE, i |-> [i EXCEPT ![fieldPath] = Nil]]
    ELSE IF Convert(v, destType).err THEN [err |-> TRUE, i |-> i]
    ELSE [err |-> FALSE, i |-> [i EXCEPT ![fieldPath] = Convert(v, destType).d]]

\* i: the struct, or Nil for a nil target
setFieldWithType(v, i, fieldPath, destType) ==
    IF v = Nil \/ i = Nil THEN [err |-> FALSE, i |-> i]
    ELSE IF Convert(v, destType).err THEN [err |-> TRUE, i |-> i]
    ELSE [err |-> FALSE, i |-> [i EXCEPT ![fieldPath] = Convert(v, destType).d]]

NoCall == [n |-> 0, v |-> Nil, field |-> "", nilTarget |-> FALSE, before |-> NewStruct,
           err |-> FALSE]

NoField ==
    /\ target = NewStruct
    /\ setCall = NoCall

SetField ==
    /\ pc = "setfield"
    /\ setCall.n < MaxCalls
    /\ \E v \in FieldValues, f \in DOMAIN FieldTypes, nilTarget \in BOOLEAN :
          /\ target' = IF nilTarget THEN target
                       ELSE setFieldWithType(v, target, f, FieldTypes[f]).i
          /\ setCall' = [n |-> setCall.n + 1, v |-> v, field |-> f,
                         nilTarget |-> nilTarget, before |-> target,
                         err |-> setFieldWithType(v, IF nilTarget THEN Nil ELSE target,
                                                  f, FieldTypes[f]).err]
    /\ UNCHANGED <<pc, engineVars, revertVars, db, corrupted, outcome, parseVars>>

\* no text has been handed to the parser
NoText ==
    /\ input = <<>>
    /\ tokens32 = <<>>
    /\ parseErr = FALSE
    /\ callbacks = <<>>
    /\ built = <<>>
    /\ rendered = <<>>
    /\ reparsed = [err |-> FALSE, template |-> <<>>]

Init ==
    /\ pc = "run"
    /\ tpl \in Templates
    /\ pos = 0
    /\ env = NewEnv
    /\ executed = <<>>
    /\ dispatched = <<>>
    /\ resources = {}
    /\ nextId = 1
    /\ db = <<>>
    /\ args = <<>>
    /\ dbOpen = FALSE
    /\ tplExec = <<>>
    /\ reverted = <<>>
    /\ diagnostics = 0
    /\ corrupted = FALSE
    /\ events = <<>>
    /\ outcome = "running"
    /\ NoText
    /\ NoField

Next ==
    \/ ExecStatement
    \/ CorruptRecord
    \/ RunE_Args
    \/ RunE_Current
    \/ RunE_Load
    \/ RunE_Revert
    \/ RunE_Print
    \/ RunE_RunTemplate

Spec == Init /\ [][Next]_vars

InitInverse ==
    /\ pc = "run"
    /\ tpl \in InverseTemplates
    /\ pos = 0
    /\ env = NewEnv
    /\ executed = <<>>
    /\ dispatched = <<>>
    /\ resources = {}
    /\ nextId = 1
    /\ db = <<>>
    /\ args = <<>>
    /\ dbOpen = FALSE
    /\ tplExec = <<>>
    /\ reverted = <<>>
    /\ diagnostics = 0
    /\ corrupted = FALSE
    /\ events = <<>>
    /\ outcome = "running"
    /\ NoText
    /\ NoField

SpecInverse == InitInverse /\ [][Next]_vars

InitSetField ==
    /\ pc = "setfield"
    /\ tpl = <<>>
    /\ pos = 0
    /\ env = NewEnv
    /\ executed = <<>>
    /\ dispatched = <<>>
    /\ resources = {}
    /\ nextId = 1
    /\ db = <<>>
    /\ args = <<>>
    /\ dbOpen = FALSE
    /\ tplExec = <<>>
    /\ reverted = <<>>
    /\ diagnostics = 0
    /\ corrupted = FALSE
    /\ events = <<>>
    /\ outcome = "running"
    /\ NoText
    /\ NoField

NextSetField == SetField

SpecSetField == InitSetField /\ [][NextSetField]_vars

(***************************************************************************)
(* The template parser (generated PEG parser).  Texts are sequences of     *)
(* one-character strings; positions count from 1; 0 stands for "no match". *)
(***************************************************************************)
endSymbol == "EOF"

Digit == {"0", "1", "2", "3", "4", "5", "6", "7", "8", "9"}
Lower == {"a", "b", "c", "d", "e", "f", "g", "h", "i", "j", "k", "l", "m",
          "n", "o", "p", "q", "r", "s", "t", "u", "v", "w", "x", "y", "z"}
Upper == {"A", "B", "C", "D", "E", "F", "G", "H", "I", "J", "K", "L", "M",
          "N", "O", "P", "Q", "R", "S", "T", "U", "V", "W", "X", "Y", "Z"}
IdentifierChars == Lower \cup Upper \cup Digit \cup {"-", "_", "."}
StringValueChars == Lower \cup Upper \cup Digit \cup {"-", ".", "_", ":", "/"}
Whitespace == {" ", "\t"}

\* []rune(s) of the words the model writes as strings
Runes ==
    [create |-> <<"c", "r", "e", "a", "t", "e">>,
     delete |-> <<"d", "e", "l", "e", "t", "e">>,
     start |-> <<"s", "t", "a", "r", "t">>,
     detach |-> <<"d", "e", "t", "a", "c", "h">>,
     check |-> <<"c", "h", "e", "c", "k">>,
     attach |-> <<"a", "t", "t", "a", "c", "h">>,
     update |-> <<"u", "p", "d", "a", "t", "e">>,
     stop |-> <<"s", "t", "o", "p">>,
     none |-> <<"n", "o", "n", "e">>,
     vpc |-> <<"v", "p", "c">>,
     subnet |-> <<"s", "u", "b", "n", "e", "t">>,
     instance |-> <<"i", "n", "s", "t", "a", "n", "c", "e">>,
     tag |-> <<"t", "a", "g">>,
     role |-> <<"r", "o", "l", "e">>,
     securitygroup |-> <<"s", "e", "c", "u", "r", "i", "t", "y", "g", "r", "o", "u", "p">>,
     routetable |-> <<"r", "o", "u", "t", "e", "t", "a", "b", "l", "e">>,
     storageobject |-> <<"s", "t", "o", "r", "a", "g", "e", "o", "b", "j", "e", "c", "t">>,
     loadbalancer |-> <<"l", "o", "a", "d", "b", "a", "l", "a", "n", "c", "e", "r">>,
     listener |-> <<"l", "i", "s", "t", "e", "n", "e", "r">>,
     queue |-> <<"q", "u", "e", "u", "e">>,
     topic |-> <<"t", "o", "p", "i", "c">>,
     subscription |-> <<"s", "u", "b", "s", "c", "r", "i", "p", "t", "i", "o", "n">>,
     bucket |-> <<"b", "u", "c", "k", "e", "t">>,
     route |-> <<"r", "o", "u", "t", "e">>,
     internetgateway |-> <<"i", "n", "t", "e", "r", "n", "e", "t", "g", "a", "t", "e", "w", "a", "y">>,
     keypair |-> <<"k", "e", "y", "p", "a", "i", "r">>,
     policy |-> <<"p", "o", "l", "i", "c", "y">>,
     group |-> <<"g", "r", "o", "u", "p">>,
     user |-> <<"u", "s", "e", "r">>,
     volume |-> <<"v", "o", "l", "u", "m", "e">>,
     id |-> <<"i", "d">>,
     name |-> <<"n", "a", "m", "e">>]

\* words of the Action and Entity rules, in the order the parser tries them
ActionWords ==
    <<Runes["create"], Runes["delete"], Runes["start"], Runes["detach"],
      Runes["check"], Runes["attach"], Runes["update"], Runes["stop"],
      Runes["none"]>>
EntityWords ==
    <<Runes["vpc"], Runes["subnet"], Runes["instance"], Runes["tag"],
      Runes["role"], Runes["securitygroup"], Runes["routetable"],
      Runes["storageobject"], Runes["loadbalancer"], Runes["listener"],
      Runes["queue"], Runes["topic"], Runes["subscription"], Runes["bucket"],
      Runes["route"], Runes["internetgateway"], Runes["keypair"],
      Runes["policy"], Runes["group"], Runes["user"], Runes["volume"],
      Runes["none"]>>

\* reset(): the buffer is the text followed by the end symbol
Reset(text) == Append(text, endSymbol)

Token(rule, begin, end) == [rule |-> rule, begin |-> begin, end |-> end]
Match(position, tokens) == [p |-> position, toks |-> tokens]
NoMatch == [p |-> 0, toks |-> <<>>]

\* <e> Action: the text token of the span, then the action token
Capture(begin, end, action) ==
    <<Token("PegText", begin, end), Token(action, end, end)>>

matchDot(buffer, position) ==
    IF position # 0 /\ buffer[position] # endSymbol THEN position + 1 ELSE 0

MatchChar(buffer, position, c) ==
    IF position # 0 /\ buffer[position] = c THEN position + 1 ELSE 0

RECURSIVE MatchStar(_, _, _)
MatchStar(buffer, position, class) ==
    IF position = 0 THEN 0
    ELSE IF buffer[position] \in class THEN MatchStar(buffer, position + 1, class)
    ELSE position

MatchPlus(buffer, position, class) ==
    IF position # 0 /\ buffer[position] \in class
    THEN MatchStar(buffer, position + 1, class)
    ELSE 0

RECURSIVE MatchWord(_, _, _, _)
MatchWord(buffer, position, word, i) ==
    IF i > Len(word) THEN position
    ELSE IF buffer[position] = word[i] THEN MatchWord(buffer, position + 1, word, i + 1)
    ELSE 0

\* the value of an expression, named once and used by the rest of a rule
With(v, Op(_)) == Op(v)

\* ordered choice e1 / e2: e2 is tried, from the same position, when e1 fails
OrElse(first, second) == IF first.p # 0 THEN first ELSE second

\* <e> Action: no match when e did not match
Taken(begin, end, action) ==
    IF end = 0 THEN NoMatch ELSE Match(end, Capture(begin, end, action))

\* ordered choice over the words: the first word that matches wins
RECURSIVE MatchWords(_, _, _, _)
MatchWords(buffer, position, words, i) ==
    IF position = 0 \/ i > Len(words) THEN 0
    ELSE With(MatchWord(buffer, position, words[i], 1),
              LAMBDA end : IF end # 0 THEN end
                           ELSE MatchWords(buffer, position, words, i + 1))

ruleAction(buffer, position) == MatchWords(buffer, position, ActionWords, 1)
ruleEntity(buffer, position) == MatchWords(buffer, position, EntityWords, 1)

ruleWhiteSpacing(buffer, position) == MatchStar(buffer, position, Whitespace)
ruleMustWhiteSpacing(buffer, position) == MatchPlus(buffer, position, Whitespace)

ruleEndOfLine(buffer, position) ==
    IF position = 0 THEN 0
    ELSE IF buffer[position] = "\r" /\ buffer[position + 1] = "\n" THEN position + 2
    ELSE IF buffer[position] = "\n" THEN position + 1
    ELSE IF buffer[position] = "\r" THEN position + 1
    ELSE 0

ruleSpace(buffer, position) ==
    IF position # 0 /\ buffer[position] \in Whitespace THEN position + 1
    ELSE ruleEndOfLine(buffer, position)

RECURSIVE ruleSpacing(_, _)
ruleSpacing(buffer, position) ==
    IF position = 0 THEN 0
    ELSE With(ruleSpace(buffer, position),
              LAMBDA next : IF next # 0 THEN ruleSpacing(buffer, next) ELSE position)

RECURSIVE ruleEndOfLines(_, _)
ruleEndOfLines(buffer, position) ==
    IF position = 0 THEN 0
    ELSE With(ruleEndOfLine(buffer, position),
              LAMBDA next : IF next # 0 THEN ruleEndOfLines(buffer, next) ELSE position)

ruleEqual(buffer, position) ==
    ruleSpacing(buffer, MatchChar(buffer, ruleSpacing(buffer, position), "="))

ruleEndOfFile(buffer, position) == position # 0 /\ matchDot(buffer, position) = 0

ruleIdentifier(buffer, position) == MatchPlus(buffer, position, IdentifierChars)
ruleStringValue(buffer, position) == MatchPlus(buffer, position, StringValueChars)

ruleIpValue(buffer, position) ==
    LET d1 == MatchPlus(buffer, position, Digit)
        d2 == MatchPlus(buffer, matchDot(buffer, d1), Digit)
        d3 == MatchPlus(buffer, matchDot(buffer, d2), Digit)
    IN  MatchPlus(buffer, matchDot(buffer, d3), Digit)

ruleCidrValue(buffer, position) ==
    LET d1 == MatchPlus(buffer, position, Digit)
        d2 == MatchPlus(buffer, matchDot(buffer, d1), Digit)
        d3 == MatchPlus(buffer, matchDot(buffer, d2), Digit)
        d4 == MatchPlus(buffer, matchDot(buffer, d3), Digit)
    IN  MatchPlus(buffer, MatchChar(buffer, d4, "/"), Digit)

ruleIntValue(buffer, position) == MatchPlus(buffer, position, Digit)

ruleIntRangeValue(buffer, position) ==
    MatchPlus(buffer, MatchChar(buffer, MatchPlus(buffer, position, Digit), "-"), Digit)

\* StringValue WhiteSpacing ',' WhiteSpacing
CSVItem(buffer, position) ==
    ruleWhiteSpacing(buffer,
        MatchChar(buffer, ruleWhiteSpacing(buffer, ruleStringValue(buffer, position)), ","))

RECURSIVE CSVItems(_, _)
CSVItems(buffer, position) ==
    With(CSVItem(buffer, position),
         LAMBDA next : IF next # 0 THEN CSVItems(buffer, next) ELSE position)

ruleCSVValue(buffer, position) ==
    With(CSVItem(buffer, position),
         LAMBDA first : IF first = 0 THEN 0
                        ELSE ruleStringValue(buffer, CSVItems(buffer, first)))

ruleRefValue(buffer, position) ==
    With(ruleIdentifier(buffer, MatchChar(buffer, position, "$")),
         LAMBDA end : Taken(position + 1, end, "Action7"))

ruleAliasValue(buffer, position) ==
    With(ruleStringValue(buffer, MatchChar(buffer, position, "@")),
         LAMBDA end : Taken(position, end, "Action6"))

ruleHoleValue(buffer, position) ==
    With(ruleWhiteSpacing(buffer, MatchChar(buffer, position, "{")),
         LAMBDA begin :
            With(ruleIdentifier(buffer, begin),
                 LAMBDA end :
                    With(MatchChar(buffer, ruleWhiteSpacing(buffer, end), "}"),
                         LAMBDA close :
                            IF close = 0 THEN NoMatch
                            ELSE Match(close, Capture(begin, end, "Action5")))))

ValueSwitch(buffer, position) ==
    CASE buffer[position] = "$" -> ruleRefValue(buffer, position)
      [] buffer[position] = "@" -> ruleAliasValue(buffer, position)
      [] buffer[position] = "{" -> ruleHoleValue(buffer, position)
      [] OTHER ->
            With(ruleStringValue(buffer, position),
                 LAMBDA end : Taken(position, end, "Action13"))

\* variant: IpValue is tried before CidrValue
ruleValueIpFirst(buffer, position) ==
    IF position = 0 THEN NoMatch
    ELSE OrElse(Taken(position, ruleIpValue(buffer, position), "Action9"),
         OrElse(Taken(position, ruleCidrValue(buffer, position), "Action8"),
                ValueSwitch(buffer, position)))

ruleValue(buffer, position) ==
    IF position = 0 THEN NoMatch
    ELSE OrElse(Taken(position, ruleCidrValue(buffer, position), "Action8"),
         OrElse(Taken(position, ruleIpValue(buffer, position), "Action9"),
         OrElse(Taken(position, ruleCSVValue(buffer, position), "Action10"),
         OrElse(Taken(position, ruleIntRangeValue(buffer, position), "Action11"),
         OrElse(Taken(position, ruleIntValue(buffer, position), "Action12"),
                ValueSwitch(buffer, position))))))

ruleParam(buffer, position) ==
    With(ruleIdentifier(buffer, position),
         LAMBDA key :
            With(ruleValue(buffer, ruleEqual(buffer, key)),
                 LAMBDA value :
                    IF value.p = 0 THEN NoMatch
                    ELSE Match(ruleWhiteSpacing(buffer, value.p),
                               Capture(position, key, "Action4") \o value.toks)))

\* variant: the token index is not restored when a further Param is abandoned
RECURSIVE ParamLoopNoRestore(_, _, _)
ParamLoopNoRestore(buffer, position, tokens) ==
    With(ruleParam(buffer, position),
         LAMBDA next :
            IF next.p # 0 THEN ParamLoopNoRestore(buffer, next.p, tokens \o next.toks)
            ELSE With(ruleIdentifier(buffer, position),
                      LAMBDA key :
                         IF key = 0 THEN Match(position, tokens)
                         ELSE Match(position,
                                    tokens \o Capture(position, key, "Action4"))))

RECURSIVE ParamLoop(_, _, _)
ParamLoop(buffer, position, tokens) ==
    With(ruleParam(buffer, position),
         LAMBDA next : IF next.p = 0 THEN Match(position, tokens)
                       ELSE ParamLoop(buffer, next.p, tokens \o next.toks))

ruleParams(buffer, position) ==
    With(ruleParam(buffer, position),
         LAMBDA first : IF first.p = 0 THEN NoMatch
                        ELSE ParamLoop(buffer, first.p, first.toks))

ruleExpr(buffer, position) ==
    With(ruleAction(buffer, position),
         LAMBDA action :
            With(ruleMustWhiteSpacing(buffer, action),
                 LAMBDA begin :
                    With(ruleEntity(buffer, begin),
                         LAMBDA entity :
                            IF entity = 0 THEN NoMatch
                            ELSE With(ruleParams(buffer,
                                          ruleMustWhiteSpacing(buffer, entity)),
                                      LAMBDA params :
                                         With(IF params.p # 0 THEN params.p ELSE entity,
                                              LAMBDA end :
                                                 Match(end,
                                                       Capture(position, action, "Action1")
                                                       \o Capture(begin, entity, "Action2")
                                                       \o params.toks
                                                       \o <<Token("Action3", end, end)>>))))))

ruleDeclaration(buffer, position) ==
    With(ruleIdentifier(buffer, position),
         LAMBDA ident :
            With(ruleExpr(buffer, ruleEqual(buffer, ident)),
                 LAMBDA expr :
                    IF expr.p = 0 THEN NoMatch
                    ELSE Match(expr.p, Capture(position, ident, "Action0") \o expr.toks)))

\* (!EndOfLine .)*
RECURSIVE RestOfLine(_, _)
RestOfLine(buffer, position) ==
    IF ruleEndOfLine(buffer, position) # 0 \/ matchDot(buffer, position) = 0
    THEN position
    ELSE RestOfLine(buffer, position + 1)

ruleComment(buffer, position) ==
    IF position = 0 THEN NoMatch
    ELSE IF buffer[position] = "#"
    THEN Match(RestOfLine(buffer, position + 1), <<>>)
    ELSE IF buffer[position] = "/" /\ buffer[position + 1] = "/"
    THEN With(RestOfLine(buffer, position + 2),
              LAMBDA end : Match(end, <<Token("Action14", end, end)>>))
    ELSE NoMatch

ruleStatement(buffer, position) ==
    With(ruleSpacing(buffer, position),
         LAMBDA begin :
            With(OrElse(ruleExpr(buffer, begin),
                 OrElse(ruleDeclaration(buffer, begin),
                        ruleComment(buffer, begin))),
                 LAMBDA body :
                    IF body.p = 0 THEN NoMatch
                    ELSE Match(ruleEndOfLines(buffer, ruleSpacing(buffer, body.p)),
                               body.toks)))

RECURSIVE StatementLoop(_, _, _)
StatementLoop(buffer, position, tokens) ==
    With(ruleStatement(buffer, position),
         LAMBDA next : IF next.p = 0 THEN Match(position, tokens)
                       ELSE StatementLoop(buffer, next.p, tokens \o next.toks))

\* Script <- Spacing Statement+ EndOfFile.  tree: the tokens left in the token
\* tree; when the rule does not match, the tokens of the statements matched
\* before the failure are still there.
ruleScript(buffer, position) ==
    With(ruleStatement(buffer, ruleSpacing(buffer, position)),
         LAMBDA first :
            IF first.p = 0 THEN [matches |-> FALSE, tree |-> <<>>]
            ELSE With(StatementLoop(buffer, first.p, first.toks),
                      LAMBDA all : [matches |-> ruleEndOfFile(buffer, all.p),
                                    tree |-> all.toks]))

\* variant: the result of the rule is not looked at
parseUnchecked(text) ==
    With(ruleScript(Reset(text), 1),
         LAMBDA script : [err |-> FALSE, tokens32 |-> script.tree])

parse(text) ==
    With(ruleScript(Reset(text), 1),
         LAMBDA script : [err |-> ~script.matches, tokens32 |-> script.tree])

Callback(rule) ==
    CASE rule = "Action0" -> "addDeclarationIdentifier"
      [] rule = "Action1" -> "addAction"
      [] rule = "Action2" -> "addEntity"
      [] rule = "Action3" -> "LineDone"
      [] rule = "Action4" -> "addParamKey"
      [] rule = "Action5" -> "addParamHoleValue"
      [] rule = "Action6" -> "addParamValue"
      [] rule = "Action7" -> "addParamRefValue"
      [] rule = "Action8" -> "addParamCidrValue"
      [] rule = "Action9" -> "addParamIpValue"
      [] rule = "Action10" -> "addCsvValue"
      [] rule = "Action11" -> "addParamValue"
      [] rule = "Action12" -> "addParamIntValue"
      [] rule = "Action13" -> "addParamValue"
      [] rule = "Action14" -> "LineDone"
      [] OTHER -> ""

\* text = string(_buffer[begin:end]) of the latest text token
PegText(buffer, tokens, i) ==
    LET texts == {j \in 1..i : tokens[j].rule = "PegText"}
        last == CHOOSE j \in texts : \A k \in texts : k <= j
    IN  IF texts = {} THEN <<>>
        ELSE SubSeq(buffer, tokens[last].begin, tokens[last].end - 1)

IsCallback(c) == c.cb # ""

Execute(buffer, tokens) ==
    SelectSeq([i \in DOMAIN tokens |->
                  [cb |-> Callback(tokens[i].rule),
                   text |-> IF Callback(tokens[i].rule) \in {"", "LineDone"} THEN <<>>
                            ELSE PegText(buffer, tokens, i)]],
              IsCallback)

(***************************************************************************)
(* AST Builder: the callbacks fill the current partial statement; LineDone *)
(* seals it and appends it to the Template.                                *)
(***************************************************************************)
\* type tag of the value a callback delivers
ValueKind(cb) ==
    CASE cb = "addParamCidrValue" -> "CIDR"
      [] cb = "addParamIpValue" -> "IP"
      [] cb = "addCsvValue" -> "CSV"
      [] cb = "addParamIntValue" -> "Int"
      [] cb = "addParamRefValue" -> "Reference"
      [] cb = "addParamHoleValue" -> "Hole"
      [] cb = "addParamValue" -> "String"
      [] OTHER -> ""

\* the String tokens of a CSV text, without the commas and the white space
RECURSIVE SplitCSV(_, _, _)
SplitCSV(text, i, token) ==
    IF i > Len(text) THEN <<token>>
    ELSE IF text[i] = "," THEN <<token>> \o SplitCSV(text, i + 1, <<>>)
    ELSE IF text[i] \in Whitespace THEN SplitCSV(text, i + 1, token)
    ELSE SplitCSV(text, i + 1, Append(token, text[i]))

\* the decimal digits of the number a digit string denotes
RECURSIVE Canonical(_)
Canonical(digits) ==
    IF Len(digits) > 1 /\ Head(digits) = "0" THEN Canonical(Tail(digits)) ELSE digits

MakeValue(cb, text) ==
    [kind |-> ValueKind(cb),
     text |-> CASE ValueKind(cb) = "CSV" -> <<>>
                [] ValueKind(cb) = "Int" -> Canonical(text)
                [] OTHER -> text,
     list |-> IF ValueKind(cb) = "CSV" THEN SplitCSV(text, 1, <<>>) ELSE <<>>]

EmptyPartial ==
    [id |-> <<>>, action |-> <<>>, entity |-> <<>>, params |-> <<>>, key |-> <<>>]
NewBuilder == [statements |-> <<>>, partial |-> EmptyPartial]

SetParam(params, key, value) ==
    IF \E i \in DOMAIN params : params[i].key = key
    THEN [i \in DOMAIN params |->
             IF params[i].key = key THEN [key |-> key, value |-> value] ELSE params[i]]
    ELSE Append(params, [key |-> key, value |-> value])

Seal(partial) ==
    [id |-> partial.id, action |-> partial.action, entity |-> partial.entity,
     params |-> partial.params]

ApplyCallback(b, c) ==
    CASE c.cb = "addDeclarationIdentifier" -> [b EXCEPT !.partial.id = c.text]
      [] c.cb = "addAction" -> [b EXCEPT !.partial.action = c.text]
      [] c.cb = "addEntity" -> [b EXCEPT !.partial.entity = c.text]
      [] c.cb = "addParamKey" -> [b EXCEPT !.partial.key = c.text]
      [] c.cb = "LineDone" ->
            IF b.partial = EmptyPartial THEN b
            ELSE [statements |-> Append(b.statements, Seal(b.partial)),
                  partial |-> EmptyPartial]
      [] OTHER ->
            [b EXCEPT !.partial.params =
                SetParam(@, b.partial.key, MakeValue(c.cb, c.text))]

RECURSIVE BuildFrom(_, _, _)
BuildFrom(b, cbs, i) ==
    IF i > Len(cbs) THEN b ELSE BuildFrom(ApplyCallback(b, cbs[i]), cbs, i + 1)

Build(cbs) == BuildFrom(NewBuilder, cbs, 1).statements

(***************************************************************************)
(* Text rendering of a Template.                                           *)
(***************************************************************************)
RECURSIVE Join(_, _)
Join(list, sep) ==
    IF Len(list) = 0 THEN <<>>
    ELSE IF Len(list) = 1 THEN list[1]
    ELSE list[1] \o sep \o Join(Tail(list), sep)

RenderValue(v) ==
    CASE v.kind = "Reference" -> <<"$">> \o v.text
      [] v.kind = "Hole" -> <<"{">> \o v.text \o <<"}">>
      [] v.kind = "CSV" -> Join(v.list, <<",">>)
      [] OTHER -> v.text

RenderParam(p) == p.key \o <<"=">> \o RenderValue(p.value)

RenderStatement(st) ==
    (IF st.id # <<>> THEN st.id \o <<" ", "=", " ">> ELSE <<>>)
    \o st.action \o <<" ">> \o st.entity
    \o (IF Len(st.params) = 0 THEN <<>>
        ELSE <<" ">> \o Join([i \in DOMAIN st.params |-> RenderParam(st.params[i])],
                              <<" ">>))

Render(template) ==
    Join([i \in DOMAIN template |-> RenderStatement(template[i])], <<"\n">>)

\* Parse of the template package: parse, then replay the callbacks
TemplateParse(text) ==
    With(parse(text),
         LAMBDA parsed :
            IF parsed.err THEN [err |-> TRUE, template |-> <<>>]
            ELSE [err |-> FALSE,
                  template |-> Build(Execute(Reset(text), parsed.tokens32))])

(***************************************************************************)
(* Texts handed to the parser.                                             *)
(***************************************************************************)
MaxText == 3

\* lines whose action and entity belong to the grammar, and comments
GoodLines ==
    { <<"c", "r", "e", "a", "t", "e", " ", "v", "p", "c", " ", "c", "i", "d",
        "r", "=", "1", "0", ".", "0", ".", "0", ".", "0", "/", "2", "4">>,
      <<"x", " ", "=", " ", "c", "r", "e", "a", "t", "e", " ", "s", "u", "b",
        "n", "e", "t", " ", "v", "p", "c", "=", "$", "x", " ", "z", "o", "n",
        "e", "=", "{", " ", "z", " ", "}">>,
      <<"d", "e", "l", "e", "t", "e", " ", "i", "n", "s", "t", "a", "n", "c",
        "e", " ", "i", "d", "=", "@", "w", "e", "b", " ", "i", "d", "s", "=",
        "i", "-", "1", ",", " ", "i", "-", "2">>,
      <<"s", "t", "o", "p", " ", "i", "n", "s", "t", "a", "n", "c", "e">>,
      <<"#", " ", "n", "o", "t", "e">>,
      <<"/", "/", "n", "o", "t", "e">> }

\* lines naming an action or an entity the grammar does not have
BadLines ==
    { <<"l", "a", "u", "n", "c", "h", " ", "v", "p", "c">>,
      <<"x", " ", "=", " ", "c", "r", "e", "a", "t", "e", " ", "d", "i", "s",
        "k", " ", "s", "i", "z", "e", "=", "1">>,
      <<"c", "r", "e", "a", "t", "e", " ", "v", "p", "c", "s">> }

Scripts ==
    { Join(lines, <<"\n">>) :
        lines \in UNION { [1..n -> GoodLines \cup BadLines] : n \in 1..MaxStmts } }

\* one statement with one parameter whose value is the text v
ValueLine(v) == Runes["create"] \o <<" ">> \o Runes["vpc"] \o <<" ", "k", "=">> \o v

ValueAlphabet == {"1", "2", "a", ".", ",", "/", "-", " ", "$", "@", "{", "}"}
ShortTexts == UNION { [1..n -> ValueAlphabet] : n \in 1..MaxText }

\* four digit groups with a separator between them and an optional suffix
Groups == {<<"1">>, <<"2", "0">>}
Separators == {<<".">>, <<",">>, <<"-">>}
Masks == {<<"8">>, <<"1", "6">>}
Suffixes == {<<>>} \cup { <<"/">> \o m : m \in Masks }
Quad(g1, s1, g2, s2, g3, s3, g4, x) == g1 \o s1 \o g2 \o s2 \o g3 \o s3 \o g4 \o x
Quads ==
    { Quad(g[1], s[1], g[2], s[2], g[3], s[3], g[4], x) :
        g \in [1..4 -> Groups], s \in [1..3 -> Separators], x \in Suffixes }

\* sigil values, with and without white space inside the braces
Names == {<<"a">>, <<"w", "e", "b">>, <<"v", "p", "c", "-", "1">>}
Paddings == {<<>>, <<" ">>, <<"\t", " ">>}
SigilTexts ==
    { <<"$">> \o n : n \in Names } \cup { <<"@">> \o n : n \in Names }
    \cup { <<"{">> \o l \o n \o r \o <<"}">> : n \in Names, l \in Paddings, r \in Paddings }

\* String tokens separated by commas, with optional white space around them
CsvTokens == {<<"a">>, <<"1">>, <<"2", "0">>}
CsvSeparators == {<<",">>, <<" ", ",">>, <<",", "\t">>}
CsvLists == UNION { [1..n -> CsvTokens] : n \in 2..4 }
RECURSIVE CsvText(_, _)
CsvText(tokens, seps) ==
    IF Len(tokens) = 1 THEN tokens[1]
    ELSE tokens[1] \o seps[1] \o CsvText(Tail(tokens), Tail(seps))
CsvTexts == { CsvText(t, s) : t \in CsvLists, s \in [1..3 -> CsvSeparators] }

\* tokens of the String charset that start with digits
DigitLedTexts ==
    { <<"2", "0", "1", "7", "-", "0", "1", "-", "0", "1">>,
      <<"1", ".", "2", ".", "3">>,
      <<"1", "0", ".", "0", ".", "0", ".", "1", ".", "5">>,
      <<"1", "0", "a">> }

ValueTexts == ShortTexts \cup Quads \cup SigilTexts \cup CsvTexts \cup DigitLedTexts

\* accepted lines in which the parser abandons an alternative after it
\* recorded tokens: an Expr whose Action matched, a Param whose key matched
BacktrackLines ==
    { <<"c", "r", "e", "a", "t", "e", " ", "=", " ", "c", "r", "e", "a", "t", "e",
        " ", "v", "p", "c">>,
      <<"c", "r", "e", "a", "t", "e", " ", "v", "p", "c", " ", "a", "=", "1", " ",
        "s", "t", "o", "p", " ", "i", "n", "s", "t", "a", "n", "c", "e">>,
      <<"c", "r", "e", "a", "t", "e", " ", "v", "p", "c", " ", "s", "t", "o", "p",
        " ", "i", "n", "s", "t", "a", "n", "c", "e">>,
      <<"x", " ", "=", " ", "c", "r", "e", "a", "t", "e", " ", "v", "p", "c", " ",
        "a", "=", "$", "x", " ", "b", "=", "{", "h", "}", " ", "y", " ", "=", " ",
        "s", "t", "o", "p", " ", "i", "n", "s", "t", "a", "n", "c", "e", " ",
        "i", "d", "=", "1">> }

\* every word of the parser in the place of the action and of the entity
Keywords == DOMAIN Runes \ {"id", "name"}
KeywordLine(a, e) == Runes[a] \o <<" ">> \o Runes[e]
KeywordLines == { KeywordLine(a, e) : a, e \in Keywords }

ParseInputs ==
    Scripts \cup { ValueLine(v) : v \in ValueTexts } \cup BacktrackLines \cup KeywordLines

\* identifier strings a create driver may return
ResultTexts ==
    { <<"m", "y", "-", "b", "u", "c", "k", "e", "t">>,
      <<"a", "r", "n", ":", "a", "w", "s", ":", "s", "n", "s", ":", "e", "u",
        "-", "w", "e", "s", "t", "-", "1", ":", "1", "2", ":", "t">>,
      <<"h", "t", "t", "p", "s", ":", "/", "/", "s", "q", "s", ".", "e", "u",
        "/", "1", "2", "/", "q">>,
      <<"2", "0", "1", "7", "-", "0", "1", "-", "0", "1">>,
      <<"1", "2", "3">> }

(***************************************************************************)
(* Parsing a text: Parse, then Execute when Parse returned no error.       *)
(***************************************************************************)
ParseText ==
    /\ pc = "parse"
    /\ tokens32' = parse(input).tokens32
    /\ parseErr' = parse(input).err
    /\ IF parseErr'
       THEN pc' = "exit" /\ outcome' = "error"
       ELSE pc' = "execute" /\ UNCHANGED outcome
    /\ UNCHANGED <<fieldVars, engineVars, revertVars, db, corrupted, input, callbacks, built,
                   rendered, reparsed>>

ExecuteTokens ==
    /\ pc = "execute"
    /\ callbacks' = Execute(Reset(input), tokens32)
    /\ built' = Build(callbacks')
    /\ pc' = "parsed"
    /\ UNCHANGED <<fieldVars, engineVars, revertVars, db, corrupted, outcome, input, tokens32,
                   parseErr, rendered, reparsed>>

\* the Template is rendered to text and the text is parsed again
RenderParse ==
    /\ pc = "parsed"
    /\ tplExec = <<>>
    /\ rendered' = Render(built)
    /\ reparsed' = TemplateParse(rendered')
    /\ pc' = "done"
    /\ outcome' = "ok"
    /\ UNCHANGED <<fieldVars, engineVars, revertVars, db, corrupted, input, tokens32, parseErr,
                   callbacks, built>>

(***************************************************************************)
(* Rendering of a reverted template (its values are literals).             *)
(***************************************************************************)
\* text data: s holds the characters
Txt(chars) == [t |-> "txt", s |-> chars, n |-> 0]

DecimalDigits == <<"0", "1", "2", "3", "4", "5", "6", "7", "8", "9">>

RenderDatum(d) ==
    IF d.t = "id" THEN Runes[d.s] \o <<"-", DecimalDigits[d.n + 1]>> ELSE d.s

RECURSIVE RenderLiterals(_, _)
RenderLiterals(params, keys) ==
    IF keys = {} THEN <<>>
    ELSE LET k == CHOOSE x \in keys : TRUE
         IN  <<" ">> \o Runes[k] \o <<"=">> \o RenderDatum(params[k].d)
             \o RenderLiterals(params, keys \ {k})

RenderExpr(st) ==
    Runes[st.action] \o <<" ">> \o Runes[st.entity]
    \o RenderLiterals(st.params, DOMAIN st.params)

RenderReverted(template) ==
    Join([i \in DOMAIN template |-> RenderExpr(template[i])], <<"\n">>)

Create_Bucket(params, o, o2, n) ==
    IF o = "ok"
    THEN DriverOk(Get(params, "name"),
                  <<Call("CreateBucket", Restrict(params, {"name"}), o)>>,
                  {Get(params, "name")})
    ELSE DriverErr(<<Call("CreateBucket", Restrict(params, {"name"}), o)>>, {})

\* records of one successful create statement
BucketRecord(name) ==
    <<Entry(Expr("create", "bucket", [name |-> HoleValue("n")]), [name |-> Txt(name)],
            Create_Bucket([name |-> Txt(name)], "ok", "ok", 1).result, "")>>
VpcRecord ==
    <<Entry(Expr("create", "vpc", [cidr |-> Lit(Txt(<<"1", ".", "1", ".", "1", ".", "1", "/", "8">>))]),
            [cidr |-> Txt(<<"1", ".", "1", ".", "1", ".", "1", "/", "8">>)],
            Create_Vpc([cidr |-> Txt(<<"1", ".", "1", ".", "1", ".", "1", "/", "8">>)],
                       "ok", "ok", 1).result, "")>>
Records == {VpcRecord} \cup {BucketRecord(name) : name \in ResultTexts}

\* revert.go: the reverted template is built from a record and printed
RevertRender ==
    /\ pc = "record"
    /\ \E record \in Records :
          /\ tplExec' = record
          /\ reverted' = Revert(record).tpl
          /\ rendered' = RenderReverted(Revert(record).tpl)
          /\ input' = RenderReverted(Revert(record).tpl)
    /\ pc' = "parse"
    /\ UNCHANGED <<fieldVars, engineVars, db, args, dbOpen, diagnostics, events, corrupted, outcome,
                   tokens32, parseErr, callbacks, built, reparsed>>

InitParse ==
    /\ \/ pc = "parse" /\ input \in ParseInputs
       \/ pc = "record" /\ input = <<>>
    /\ tpl = <<>>
    /\ pos = 0
    /\ env = NewEnv
    /\ executed = <<>>
    /\ dispatched = <<>>
    /\ resources = {}
    /\ nextId = 1
    /\ db = <<>>
    /\ args = <<>>
    /\ dbOpen = FALSE
    /\ tplExec = <<>>
    /\ reverted = <<>>
    /\ diagnostics = 0
    /\ corrupted = FALSE
    /\ events = <<>>
    /\ outcome = "running"
    /\ tokens32 = <<>>
    /\ parseErr = FALSE
    /\ callbacks = <<>>
    /\ built = <<>>
    /\ rendered = <<>>
    /\ reparsed = [err |-> FALSE, template |-> <<>>]
    /\ NoField

NextParse ==
    \/ ParseText
    \/ ExecuteTokens
    \/ RenderParse
    \/ RevertRender

SpecParse == InitParse /\ [][NextParse]_vars

(***************************************************************************)
(* Properties.                                                             *)
(***************************************************************************)
PlatformError(d) == \E c \in DOMAIN d.calls : d.calls[c].out = "error"
FailedAt(k) ==
    \/ ~executed[k].ok
    \/ \E i \in DOMAIN dispatched : dispatched[i].index = k /\ PlatformError(dispatched[i])
RefKeys(st) == {k \in DOMAIN st.params : st.params[k].kind = "ref"}
DeclaredBefore(t, i, x) == \E j \in 1..(i - 1) : t[j].id = x
LastDecl(t, i, x) ==
    CHOOSE j \in 1..(i - 1) : t[j].id = x /\ \A m \in (j + 1)..(i - 1) : t[m].id # x
RunEnded == pc \in {"idle", "exit"} /\ Len(tpl) > 0 /\ pos > 0

\* C1: fail-fast.  When statement k is the first statement whose resolution
\* fails or whose driver meets an error of the platform, the run has executed
\* exactly k statements and no driver is dispatched for a statement after k.
FailFast ==
    \A k \in DOMAIN executed :
        FailedAt(k) =>
            /\ Len(executed) = k
            /\ pos = k
            /\ \A i \in DOMAIN dispatched : dispatched[i].index <= k

WitnessFailFast ==
    /\ RunEnded
    /\ Len(executed) >= 2
    /\ Len(executed) < Len(tpl)
    /\ Len(dispatched) = Len(executed)
    /\ PlatformError(dispatched[Len(dispatched)])
    /\ ~executed[Len(executed)].ok

\* C2: reference resolution order.  A Reference(X) of an executed statement i
\* resolves if and only if a Declaration of X stands strictly before i; when
\* none does (forward, self or undeclared reference) the statement fails with
\* UnresolvedReference and no driver is dispatched for it.
ReferenceOrder ==
    \A i \in DOMAIN executed : \A k \in RefKeys(tpl[i]) :
        LET x == tpl[i].params[k].name
        IN  /\ (k \in DOMAIN executed[i].params) <=> DeclaredBefore(tpl, i, x)
            /\ ~DeclaredBefore(tpl, i, x) =>
                  /\ executed[i].err = "UnresolvedReference"
                  /\ \A d \in DOMAIN dispatched : dispatched[d].index # i

WitnessReferenceOrder ==
    \E j \in DOMAIN executed :
        /\ j >= 2
        /\ executed[1].ok
        /\ tpl[j].id # ""
        /\ \E k \in RefKeys(tpl[j]) :
              tpl[j].params[k].name = tpl[j].id /\ k \notin DOMAIN executed[j].params
        /\ executed[j].err = "UnresolvedReference"

\* C3: a resolved Reference(X) equals the result of the most recent Declaration
\* of X before it, which for a create is the identifier of the resource the
\* platform created; the Environment binds exactly the identifiers declared by
\* the successful statements, each to the result of its latest Declaration, so
\* a later Declaration overwrites and a bare Expression changes nothing.
OkPrefix == IF executed # <<>> /\ ~executed[Len(executed)].ok THEN pos - 1 ELSE pos
ReferenceValue ==
    /\ \A i \in DOMAIN executed : \A k \in RefKeys(tpl[i]) :
          k \in DOMAIN executed[i].params =>
              LET j == LastDecl(tpl, i, tpl[i].params[k].name)
              IN  /\ executed[i].params[k] = Lit(executed[j].result)
                  /\ tpl[j].action = "create" =>
                        \E d \in DOMAIN dispatched :
                            /\ dispatched[d].index = j
                            /\ dispatched[d].created = {executed[j].result}
    /\ DOMAIN env = {x \in Identifiers : DeclaredBefore(tpl, OkPrefix + 1, x)}
    /\ \A x \in DOMAIN env : env[x] = executed[LastDecl(tpl, OkPrefix + 1, x)].result

WitnessReferenceValue ==
    \E i \in DOMAIN executed : \E k \in RefKeys(tpl[i]) :
        /\ executed[i].ok
        /\ tpl[i].id = ""
        /\ LET x == tpl[i].params[k].name
               j == LastDecl(tpl, i, x)
           IN  /\ \E m \in 1..(j - 1) : tpl[m].id = x /\ executed[m].result # executed[j].result
               /\ executed[i].params[k] = Lit(executed[j].result)
               /\ pos = i
               /\ env[x] = executed[j].result
               /\ env[x] # executed[i].result

InEvents(e) == \E i \in DOMAIN events : events[i] = e
RevertedBuilt == pc = "print" \/ InEvents("print")
RevertFailed == pc = "exit" /\ events # <<>> /\ events[Len(events)] = "revert"
InverseTable ==
    {<<"create", "delete">>, <<"start", "stop">>, <<"stop", "start">>,
     <<"attach", "detach">>, <<"detach", "attach">>}
NoInverse == {"delete", "update", "check", "none"}
InvIdx(record) ==
    {i \in DOMAIN record :
        record[i].ok /\ \E p \in InverseTable : p[1] = record[i].stmt.action}
NthLast(S, m) == CHOOSE i \in S : Cardinality({j \in S : j > i}) = m - 1
InverseOf(entry, st) ==
    /\ st.id = ""
    /\ <<entry.stmt.action, st.action>> \in InverseTable
    /\ st.entity = entry.stmt.entity
    /\ st.params = IF entry.stmt.action = "create" THEN [id |-> Lit(entry.result)]
                   ELSE entry.params

\* C4: revert ordering.  The reverted template holds exactly the inverses of
\* the successful invertible entries of the record, the inverse of the entry
\* executed last first.
RevertOrdering ==
    RevertedBuilt =>
        /\ Len(reverted) = Cardinality(InvIdx(tplExec))
        /\ \A m \in DOMAIN reverted :
              InverseOf(tplExec[NthLast(InvIdx(tplExec), m)], reverted[m])

WitnessRevertOrdering ==
    /\ RevertedBuilt
    /\ Len(tplExec) = 3
    /\ InvIdx(tplExec) = {1, 3}
    /\ Len(reverted) = 2
    /\ reverted[1] # reverted[2]
    /\ InverseOf(tplExec[3], reverted[1])
    /\ ~InverseOf(tplExec[1], reverted[1])

\* C5: revert of a create.  A record holding one successful create on entity E
\* with result R reverts to the single statement delete E id=R; R is none of
\* the values the create was given, and the delete driver run for it hands R to
\* the platform as the identifier to delete.
RevertCreate ==
    (RevertedBuilt /\ Len(tplExec) = 1 /\ tplExec[1].ok
        /\ tplExec[1].stmt.action = "create") =>
        /\ reverted = <<Expr("delete", tplExec[1].stmt.entity,
                             [id |-> Lit(tplExec[1].result)])>>
        /\ \A k \in DOMAIN tplExec[1].params :
              tplExec[1].params[k].d # tplExec[1].result
        /\ (InEvents("execute") /\ pos = 1) =>
              /\ Len(dispatched) = 1
              /\ dispatched[1].action = "delete"
              /\ Len(dispatched[1].calls) = 1
              /\ dispatched[1].calls[1].input = [id |-> tplExec[1].result]

WitnessRevertCreate ==
    /\ pc = "exit"
    /\ InEvents("execute")
    /\ Len(tplExec) = 1
    /\ tplExec[1].ok
    /\ tplExec[1].stmt.action = "create"
    /\ tplExec[1].stmt.entity = "vpc"
    /\ Len(dispatched) = 1
    /\ dispatched[1].calls[1].op = "DeleteVpc"
    /\ outcome = "ok"

\* C6: only successful entries are reverted.  Every statement of the reverted
\* template is the inverse of a successful entry and there are no more
\* statements than successful entries; a failed entry contributes nothing.
OnlySuccessful ==
    RevertedBuilt =>
        /\ Len(reverted) <= Cardinality({i \in DOMAIN tplExec : tplExec[i].ok})
        /\ \A m \in DOMAIN reverted :
              \E i \in DOMAIN tplExec : tplExec[i].ok /\ InverseOf(tplExec[i], reverted[m])

WitnessOnlySuccessful ==
    /\ RevertedBuilt
    /\ Len(tplExec) >= 2
    /\ ~tplExec[Len(tplExec)].ok
    /\ tplExec[Len(tplExec)].stmt.action = "create"
    /\ tplExec[Len(tplExec)].err = "DriverError"
    /\ Len(reverted) = Len(tplExec) - 1

LastRecord == db[Len(db)]
RunRecorded == pc \in {"idle", "exit"} /\ (InEvents("execute") \/ ~corrupted)
RecordContent ==
    RunRecorded =>
        /\ Len(db) = IF InEvents("execute") THEN 2 ELSE 1
        /\ LastRecord = executed
        /\ Len(LastRecord) = pos
        /\ pos <= Len(tpl)
        /\ \A i \in DOMAIN LastRecord :
              /\ LastRecord[i].stmt = tpl[i]
              /\ i < Len(LastRecord) => LastRecord[i].ok
              /\ LastRecord[i].ok <=> LastRecord[i].err = ""
              /\ \A k \in DOMAIN LastRecord[i].params : LastRecord[i].params[k].kind = "lit"
              /\ LastRecord[i].ok => DOMAIN LastRecord[i].params = DOMAIN tpl[i].params
        /\ Len(LastRecord) < Len(tpl) => ~LastRecord[Len(LastRecord)].ok
        /\ \A d \in DOMAIN dispatched :
              LET e == LastRecord[dispatched[d].index]
              IN  /\ e.params = [k \in DOMAIN dispatched[d].params |->
                                    Lit(dispatched[d].params[k])]
                  /\ PlatformError(dispatched[d]) =>
                        ~e.ok /\ dispatched[d].index = Len(LastRecord)
                  /\ ~PlatformError(dispatched[d]) =>
                        e.ok /\ e.result = dispatched[d].result

WitnessRecordContent ==
    /\ pc = "idle"
    /\ outcome = "exit1"
    /\ Len(tpl) = 3
    /\ Len(db) = 1
    /\ Len(db[1]) = 2
    /\ db[1][1].ok
    /\ ~db[1][2].ok
    /\ Len(dispatched) = 2
    /\ PlatformError(dispatched[2])

Steps == <<"open", "load", "close", "revert", "print", "execute">>
IsPrefix(s, t) == Len(s) <= Len(t) /\ \A i \in DOMAIN s : s[i] = t[i]
RevertCommandOrder ==
    /\ IsPrefix(events, Steps)
    /\ (pc = "exit" /\ args = <<>>) =>
          outcome = "error" /\ events = <<>> /\ Len(db) = 1 /\ ~dbOpen
    /\ (InEvents("load") /\ args[1] \notin DOMAIN db) =>
          /\ pc = "exit" /\ outcome = "exit1"
          /\ events = <<"open", "load", "close">> /\ reverted = <<>>
    /\ (InEvents("revert") /\ Revert(tplExec).err) =>
          pc = "exit" /\ outcome = "exit1" /\ Len(events) = 4 /\ Len(db) = 1
    /\ (pc = "exit" /\ events # Steps) => outcome \in {"exit1", "error"} /\ Len(db) = 1
    /\ (pc = "exit" /\ events = Steps) =>
          outcome = ExitOn(\E i \in DOMAIN executed : ~executed[i].ok)
    /\ pc = "exec" => events = Steps /\ tpl = reverted
    /\ Len(db) = 2 => events = Steps

WitnessRevertCommandOrder ==
    /\ pc = "exit"
    /\ events = <<"open", "load", "close", "revert">>
    /\ outcome = "exit1"
    /\ reverted = <<>>
    /\ Len(db) = 1

(***************************************************************************)
(* Dry-run drivers.  w, w2: what the platform makes of the requests the    *)
(* driver sends (it would perform them, refuse them, or miss a resource).  *)
(***************************************************************************)
dryRunOperation == "DryRunOperation"
notFound == {"InvalidID.NotFound"}
Verdicts == {"succeed", "fail", "missing"}

\* the platform: a request with the DryRun flag is answered with an error
\* code and performs nothing
Response(request, w) ==
    IF "DryRun" \in DOMAIN request
    THEN CASE w = "succeed" -> dryRunOperation
           [] w = "missing" -> "InvalidID.NotFound"
           [] OTHER -> "UnauthorizedOperation"
    ELSE IF w = "succeed" THEN "ok" ELSE "error"

Performed(call) == call.out = "ok"

fakeDryRunId(entity) == [t |-> "id", s |-> entity, n |-> 0]

\* variant: the DryRun flag of the request is left unset
DryRunInputUnset(request) == request

\* input.DryRun = aws.BoolVal(true)
DryRunInput(request) ==
    [k \in (DOMAIN request) \cup {"DryRun"} |-> IF k = "DryRun" THEN Str("true") ELSE request[k]]

\* full dry run: the flagged request is sent and its error code classified
FullDryRun(op, request, w, entity, made) ==
    LET call == Call(op, DryRunInput(request), Response(DryRunInput(request), w))
        created == IF Performed(call) THEN made ELSE {}
    IN  IF call.out \in {dryRunOperation} \cup notFound
        THEN DriverOk(fakeDryRunId(entity), <<call>>, created)
        ELSE IF call.out = "ok" THEN DriverOk(Nil, <<call>>, created)
        ELSE DriverErr(<<call>>, created)

\* params dry run: only the presence of the required parameters is looked at
ParamsDryRun(params, required) ==
    IF required \subseteq DOMAIN params THEN DriverOk(Nil, <<>>, {}) ELSE DriverErr(<<>>, {})

Create_Vpc_DryRun(params, w, w2, n) ==
    FullDryRun("CreateVpc", Restrict(params, {"cidr"}), w, "vpc", {ResId("vpc", n)})

Delete_Vpc_DryRun(params, w, w2, n) ==
    FullDryRun("DeleteVpc", DeleteInput(params), w, "vpc", {})

Create_Subnet_DryRun(params, w, w2, n) ==
    FullDryRun("CreateSubnet", Restrict(params, {"cidr", "vpc", "zone"}), w, "subnet",
               {ResId("subnet", n)})

Update_Subnet_DryRun(params, w, w2, n) == ParamsDryRun(params, {"id"})

Delete_Subnet_DryRun(params, w, w2, n) ==
    FullDryRun("DeleteSubnet", DeleteInput(params), w, "subnet", {})

Create_Tags_DryRun(params, w) ==
    FullDryRun("CreateTags", params, w, "tag", {})

Create_Instance_DryRun(params, w, w2, n) ==
    LET run == FullDryRun("RunInstances",
                          Restrict(params, {"image", "count", "type", "subnet", "key", "ip",
                                            "userdata", "group", "lock"}),
                          w, "instance", {ResId("instance", n)})
        tags == Create_Tags_DryRun([resource |-> fakeDryRunId("instance"),
                                    Name |-> Get(params, "name")], w2)
    IN  IF run.err \/ run.result = Nil \/ "name" \notin DOMAIN params THEN run
        ELSE IF tags.err THEN DriverErr(run.calls \o tags.calls, run.created \cup tags.created)
        ELSE DriverOk(run.result, run.calls \o tags.calls, run.created \cup tags.created)

Stop_Instance_DryRun(params, w, w2, n) ==
    FullDryRun("StopInstances", Restrict(params, {"id"}), w, "instance", {})

Create_Loadbalancer_DryRun(params, w, w2, n) == ParamsDryRun(params, {"name", "subnets"})
Create_User_DryRun(params, w, w2, n) == ParamsDryRun(params, {"name"})
Create_Queue_DryRun(params, w, w2, n) == ParamsDryRun(params, {"name"})

\* the keys a delete dry run asks for: the keys a params dry run tests, the
\* required parameters a full dry run hands to the platform
DeleteRequired ==
    [vpc |-> {"id"}, subnet |-> {"id"}, instance |-> {"id"}, securitygroup |-> {"id"},
     volume |-> {"id"}, internetgateway |-> {"id"}, routetable |-> {"id"},
     route |-> {"table", "cidr"}, keypair |-> {"id"}, loadbalancer |-> {"arn"},
     listener |-> {"arn"}, user |-> {"name"}, group |-> {"name"}, bucket |-> {"name"},
     storageobject |-> {"bucket", "key"}, topic |-> {"arn"}, subscription |-> {"arn"},
     queue |-> {"url"}]

Delete_User_DryRun(params, w, w2, n) == ParamsDryRun(params, DeleteRequired["user"])

DryRunDrivers ==
    {<<"create", "vpc">>, <<"delete", "vpc">>, <<"create", "subnet">>,
     <<"update", "subnet">>, <<"delete", "subnet">>, <<"create", "instance">>,
     <<"stop", "instance">>, <<"create", "loadbalancer">>, <<"create", "user">>,
     <<"create", "queue">>}

CallDryRunDriver(action, entity, params, w, w2, n) ==
    CASE <<action, entity>> = <<"create", "vpc">> -> Create_Vpc_DryRun(params, w, w2, n)
      [] <<action, entity>> = <<"delete", "vpc">> -> Delete_Vpc_DryRun(params, w, w2, n)
      [] <<action, entity>> = <<"create", "subnet">> -> Create_Subnet_DryRun(params, w, w2, n)
      [] <<action, entity>> = <<"update", "subnet">> -> Update_Subnet_DryRun(params, w, w2, n)
      [] <<action, entity>> = <<"delete", "subnet">> -> Delete_Subnet_DryRun(params, w, w2, n)
      [] <<action, entity>> = <<"create", "instance">> ->
            Create_Instance_DryRun(params, w, w2, n)
      [] <<action, entity>> = <<"stop", "instance">> -> Stop_Instance_DryRun(params, w, w2, n)
      [] <<action, entity>> = <<"create", "loadbalancer">> ->
            Create_Loadbalancer_DryRun(params, w, w2, n)
      [] <<action, entity>> = <<"create", "user">> -> Create_User_DryRun(params, w, w2, n)
      [] <<action, entity>> = <<"create", "queue">> -> Create_Queue_DryRun(params, w, w2, n)

(***************************************************************************)
(* A template run with the dry-run flag: the DryRun counterpart of each    *)
(* driver is dispatched.                                                   *)
(***************************************************************************)
DryRunPool ==
    { Declaration("x", "create", "vpc", [cidr |-> Lit(Str("10.0.0.0/24"))]),
      Declaration("y", "create", "subnet",
                  [vpc |-> RefValue("x"), cidr |-> Lit(Str("10.0.1.0/24"))]),
      Declaration("x", "create", "instance",
                  [image |-> Lit(Str("ami-1")), name |-> Lit(Str("web"))]),
      Expr("delete", "vpc", [id |-> Lit(ResId("vpc", 0))]),
      Expr("update", "subnet", [id |-> RefValue("y"), public |-> Lit(Str("true"))]),
      Expr("stop", "instance", [id |-> RefValue("x")]),
      Declaration("x", "create", "user", [name |-> Lit(Str("web"))]),
      Declaration("y", "create", "queue", [name |-> Lit(Str("web"))]),
      Expr("create", "loadbalancer", [name |-> Lit(Str("web")), subnets |-> RefValue("y")]) }

DryRunTemplates == UNION { [1..n -> DryRunPool] : n \in 1..MaxStmts }

\* the platform performs a delete request that is sent without the DryRun flag
Deleted(st, data, r) ==
    IF st.action = "delete" /\ \E c \in DOMAIN r.calls : Performed(r.calls[c])
    THEN {Get(data, "id")} ELSE {}

EvalStatementDryRun(index, st, e, w, w2, n) ==
    LET rp == ResolveParams(st.params, e, Nil, Nil)
        r == CallDryRunDriver(st.action, st.entity, rp.data, w, w2, n)
    IN  IF ~rp.ok
        THEN [entry |-> Entry(st, rp.data, Nil, rp.err), env |-> e,
              dispatch |-> <<>>, created |-> {}, deleted |-> {}]
        ELSE IF <<st.action, st.entity>> \notin DryRunDrivers
        THEN [entry |-> Entry(st, rp.data, Nil, "DriverNotFound"), env |-> e,
              dispatch |-> <<>>, created |-> {}, deleted |-> {}]
        ELSE IF r.err
        THEN [entry |-> Entry(st, rp.data, Nil, "DriverError"), env |-> e,
              dispatch |-> <<Dispatch(index, st, rp.data, r)>>, created |-> r.created,
              deleted |-> Deleted(st, rp.data, r)]
        ELSE [entry |-> Entry(st, rp.data, r.result, ""),
              env |-> IF st.id # "" THEN Bind(e, st.id, r.result) ELSE e,
              dispatch |-> <<Dispatch(index, st, rp.data, r)>>, created |-> r.created,
              deleted |-> Deleted(st, rp.data, r)]

ExecStatementDryRun ==
    /\ pc = "dryrun"
    /\ pos < Len(tpl)
    /\ \E w \in Verdicts, w2 \in Verdicts :
          LET r == EvalStatementDryRun(pos + 1, tpl[pos + 1], env, w, w2, nextId)
          IN  /\ executed' = Append(executed, r.entry)
              /\ env' = r.env
              /\ pos' = pos + 1
              /\ dispatched' = dispatched \o r.dispatch
              /\ resources' = (resources \cup r.created) \ r.deleted
              /\ nextId' = nextId + Cardinality(r.created)
              /\ IF RunOver(r.entry, pos + 1, tpl)
                 THEN pc' = "exit" /\ outcome' = ExitOn(~r.entry.ok)
                 ELSE UNCHANGED <<pc, outcome>>
    /\ UNCHANGED <<fieldVars, tpl, db, revertVars, corrupted, parseVars>>

\* the platform holds a vpc when the dry run starts
InitDryRun ==
    /\ pc = "dryrun"
    /\ tpl \in DryRunTemplates
    /\ pos = 0
    /\ env = NewEnv
    /\ executed = <<>>
    /\ dispatched = <<>>
    /\ resources = {ResId("vpc", 0)}
    /\ nextId = 1
    /\ db = <<>>
    /\ args = <<>>
    /\ dbOpen = FALSE
    /\ tplExec = <<>>
    /\ reverted = <<>>
    /\ diagnostics = 0
    /\ corrupted = FALSE
    /\ events = <<>>
    /\ outcome = "running"
    /\ NoText
    /\ NoField

NextDryRun == ExecStatementDryRun

SpecDryRun == InitDryRun /\ [][NextDryRun]_vars

(***************************************************************************)
(* Properties of the parser.                                               *)
(***************************************************************************)
IsValueCallback(c) == ValueKind(c.cb) # ""
ValueCallbacks == SelectSeq(callbacks, IsValueCallback)
\* the only value of the text was handed to callback cb with the given text
Delivered(cb, text) == ValueCallbacks = <<[cb |-> cb, text |-> text]>>
Parsed == pc \in {"parsed", "done"}
ParseEnded == pc \in {"parsed", "done", "exit"}

\* digit groups joined by literal dots
Dotted ==
    { Quad(g[1], <<".">>, g[2], <<".">>, g[3], <<".">>, g[4], <<>>) : g \in [1..4 -> Groups] }

\* C11: CIDR/IP precedence.  A parameter value d.d.d.d/n is accepted and
\* handed to the CIDR callback with its whole text; a parameter value d.d.d.d
\* without suffix is accepted and handed to the IP callback with its whole
\* text; neither is rejected or handed to another callback.
CidrIpPrecedence ==
    /\ \A v \in Dotted : \A m \in Masks :
          (ParseEnded /\ input = ValueLine(v \o <<"/">> \o m)) =>
              /\ ~parseErr
              /\ Delivered("addParamCidrValue", v \o <<"/">> \o m)
    /\ \A v \in Dotted :
          (ParseEnded /\ input = ValueLine(v)) =>
              /\ ~parseErr
              /\ Delivered("addParamIpValue", v)

WitnessCidrIpPrecedence ==
    /\ pc = "parsed"
    /\ input = ValueLine(<<"2", "0", ".", "1", ".", "1", ".", "2", "0", "/", "1", "6">>)
    /\ Delivered("addParamCidrValue",
                 <<"2", "0", ".", "1", ".", "1", ".", "2", "0", "/", "1", "6">>)

\* the value text of a one-parameter line
ValueOf(line) == SubSeq(line, Len(ValueLine(<<>>)) + 1, Len(line))
CsvLines == { ValueLine(v) : v \in CsvTexts }

\* C12: CSV classification.  A parameter value made of two or more String
\* tokens separated by ',' (spaces or tabs allowed around the commas) is
\* accepted and handed as one value, with its whole text, to the CSV callback.
CsvClassification ==
    (ParseEnded /\ input \in CsvLines) =>
        /\ ~parseErr
        /\ Delivered("addCsvValue", ValueOf(input))

\* C13: IntRange classification.  A parameter value lo-hi (two digit strings
\* joined by '-') is accepted and handed to the builder with its whole text in
\* a way that tells it from a String: not through the callback that delivers
\* String values.
RangeLines == { ValueLine(<<lo, "-", hi>>) : lo \in {"1", "2"}, hi \in {"1", "2"} }
IntRangeClassification ==
    (ParseEnded /\ input \in RangeLines) =>
        /\ ~parseErr
        /\ Len(ValueCallbacks) = 1
        /\ ValueCallbacks[1].text = ValueOf(input)
        /\ ValueCallbacks[1].cb # Callback("Action13")

\* C14: sigil values.  '$' Identifier is handed over as a Reference, '@' String
\* as an Alias, '{' Identifier '}' (spaces or tabs allowed inside the braces)
\* as a Hole; the kind follows from the first character, so an Alias is not
\* handed over the way a String is, and the name handed over has neither the
\* sigil nor the braces.
SigilValues ==
    \A n \in Names :
        /\ (ParseEnded /\ input = ValueLine(<<"$">> \o n)) =>
              ~parseErr /\ Delivered("addParamRefValue", n)
        /\ (ParseEnded /\ input = ValueLine(<<"@">> \o n)) =>
              /\ ~parseErr
              /\ Len(ValueCallbacks) = 1
              /\ ValueCallbacks[1].text = n
              /\ ValueCallbacks[1].cb # Callback("Action13")
        /\ \A l \in Paddings, r \in Paddings :
              (ParseEnded /\ input = ValueLine(<<"{">> \o l \o n \o r \o <<"}">>)) =>
                  ~parseErr /\ Delivered("addParamHoleValue", n)

\* C15: comments end a statement.  Every line of an accepted text, be it an
\* Expression, a Declaration, a '#' comment or a '//' comment, emits the
\* line-done signal exactly once.
IsLineDone(c) == c.cb = "LineDone"
LineCount(text) == 1 + Cardinality({i \in DOMAIN text : text[i] = "\n"})
CommentLineDone ==
    (Parsed /\ input \in Scripts) =>
        Len(SelectSeq(callbacks, IsLineDone)) = LineCount(input)

\* C16: atomic rejection at parse time.  When a statement of the text names
\* an action or an entity outside the grammar, Parse returns an error for the
\* whole text, no callback is replayed, no Template is built and no statement
\* (not even a valid one that stands before the bad one) reaches a driver.
BadScripts ==
    { Join(lines, <<"\n">>) :
        lines \in { l \in UNION { [1..n -> GoodLines \cup BadLines] : n \in 1..MaxStmts } :
                      \E i \in DOMAIN l : l[i] \in BadLines } }
Flagged(d) == \A c \in DOMAIN d.calls : "DryRun" \in DOMAIN d.calls[c].input

\* C17: dry-run has no durable effect.  Every request a dry-run driver (or a
\* driver it calls) sends to the platform carries the DryRun flag, and the
\* resources of the platform stay what they were before the run.
DryRunNoEffect ==
    pc \in {"dryrun", "exit"} =>
        /\ \A i \in DOMAIN dispatched : Flagged(dispatched[i])
        /\ resources = {ResId("vpc", 0)}
        /\ nextId = 1

WitnessDryRunNoEffect ==
    /\ pc = "exit"
    /\ outcome = "ok"
    /\ Len(dispatched) = 3
    /\ dispatched[1].entity = "instance" /\ Len(dispatched[1].calls) = 2
    /\ dispatched[2].action = "delete" /\ dispatched[2].params["id"] \in resources
    /\ dispatched[3].entity = "user" /\ Len(dispatched[3].calls) = 0
    /\ resources = {ResId("vpc", 0)}

\* C18: dry-run placeholder.  A create statement that succeeds under the
\* dry-run flag has a placeholder identifier as result, and a Declaration binds
\* that identifier.
DryRunPlaceholder ==
    pc \in {"dryrun", "exit"} =>
        \A i \in DOMAIN executed :
            (executed[i].ok /\ tpl[i].action = "create") =>
                /\ executed[i].result = fakeDryRunId(tpl[i].entity)
                /\ (tpl[i].id # "" /\ i = Len(executed)) => env[tpl[i].id] = executed[i].result

(***************************************************************************)
(* Properties of the rendering.                                            *)
(***************************************************************************)
\* C19: round trip.  When a text has parsed, the rendering of its Template
\* parses, and gives the statements the text gave: same identifiers, actions,
\* entities, keys in order, value kinds and contents.
RoundTrip ==
    pc = "done" =>
        /\ ~reparsed.err
        /\ reparsed.template = built

\* a statement of a reverted template (one literal parameter) as the builder
\* holds a statement: the identifier is a String value
LiteralParam(st, k) ==
    [key |-> Runes[k],
     value |-> [kind |-> "String", text |-> RenderDatum(st.params[k].d), list |-> <<>>]]
InMemory(st) ==
    [id |-> <<>>, action |-> Runes[st.action], entity |-> Runes[st.entity],
     params |-> <<LiteralParam(st, CHOOSE k \in DOMAIN st.params : TRUE)>>]

\* C20: rendering of a reverted template.  The text printed for the reverted
\* template of a record parses, and gives the statements of the reverted
\* template, whatever identifier the create driver returned.
RevertedRendering ==
    (tplExec # <<>> /\ ParseEnded) =>
        /\ ~parseErr
        /\ pc = "parsed" =>
              built = [i \in DOMAIN reverted |-> InMemory(reverted[i])]

CharsetTexts == { v \in ValueTexts : \A i \in DOMAIN v : v[i] \in StringValueChars }

\* C23: tokens of the String charset.  A parameter value made only of
\* letters, digits and - _ . : / is accepted, and handed over whole as one
\* value; a token that starts with digits and is not an Int, IntRange, IP or
\* CIDR as a whole is handed over as a String.
CharsetAccepted ==
    /\ (ParseEnded /\ input \in { ValueLine(v) : v \in CharsetTexts }) =>
          /\ ~parseErr
          /\ Len(ValueCallbacks) = 1
          /\ ValueCallbacks[1].text = ValueOf(input)
    /\ (ParseEnded /\ input \in { ValueLine(v) : v \in DigitLedTexts }) =>
          /\ ~parseErr
          /\ Delivered(Callback("Action13"), ValueOf(input))

\* four digit groups whose three separators are not all literal dots
Undotted == Quads \ { q \o x : q \in Dotted, x \in Suffixes }

\* C24: literal dots.  A value is handed to the IP or to the CIDR callback
\* only when the separators between its four digit groups are '.' characters;
\* digit groups separated by other characters never are.
LiteralDots ==
    (ParseEnded /\ input \in { ValueLine(v) : v \in Undotted }) =>
        \A i \in DOMAIN callbacks :
            callbacks[i].cb \notin {"addParamIpValue", "addParamCidrValue"}

(***************************************************************************)
(* Properties of the callbacks.                                            *)
(***************************************************************************)
\* the callbacks from i on follow the protocol; state: what has been seen of
\* the current Expression ("start": nothing).  A LineDone alone is the line
\* of a '//' comment.
RECURSIVE Protocol(_, _, _)
Protocol(cbs, i, state) ==
    IF i > Len(cbs) THEN state = "start"
    ELSE CASE state = "start" ->
                  CASE cbs[i].cb = "addDeclarationIdentifier" -> Protocol(cbs, i + 1, "decl")
                    [] cbs[i].cb = "addAction" -> Protocol(cbs, i + 1, "action")
                    [] cbs[i].cb = "LineDone" -> Protocol(cbs, i + 1, "start")
                    [] OTHER -> FALSE
           [] state = "decl" ->
                  cbs[i].cb = "addAction" /\ Protocol(cbs, i + 1, "action")
           [] state = "action" ->
                  cbs[i].cb = "addEntity" /\ Protocol(cbs, i + 1, "params")
           [] state = "params" ->
                  CASE cbs[i].cb = "addParamKey" -> Protocol(cbs, i + 1, "key")
                    [] cbs[i].cb = "LineDone" -> Protocol(cbs, i + 1, "start")
                    [] OTHER -> FALSE
           [] state = "key" ->
                  IsValueCallback(cbs[i]) /\ Protocol(cbs, i + 1, "params")

Cb(cb, text) == [cb |-> cb, text |-> text]

\* C25: builder callback protocol.  For every accepted text the callbacks
\* replayed are, per Expression: at most one addDeclarationIdentifier, one
\* addAction, one addEntity, pairs of addParamKey and one value callback, one
\* LineDone; what an abandoned alternative recorded is not replayed, so the
\* key 'stop' tried as a further Param of the first statement reaches no
\* statement.
CallbackProtocol ==
    /\ Parsed => Protocol(callbacks, 1, "start")
    /\ (Parsed /\ input = Runes["create"] \o <<" ">> \o Runes["vpc"]
                          \o <<" ", "a", "=", "1", " ">> \o Runes["stop"]
                          \o <<" ">> \o Runes["instance"]) =>
          callbacks = <<Cb("addAction", Runes["create"]), Cb("addEntity", Runes["vpc"]),
                        Cb("addParamKey", <<"a">>), Cb("addParamIntValue", <<"1">>),
                        Cb("LineDone", <<>>),
                        Cb("addAction", Runes["stop"]), Cb("addEntity", Runes["instance"]),
                        Cb("LineDone", <<>>)>>

WitnessCallbackProtocol ==
    /\ pc = "parsed"
    /\ input = Runes["create"] \o <<" ">> \o Runes["vpc"]
               \o <<" ", "a", "=", "1", " ">> \o Runes["stop"]
               \o <<" ">> \o Runes["instance"]
    /\ Len(callbacks) = 8
    /\ Len(built) = 2

(***************************************************************************)
(* Properties of the keywords.                                             *)
(***************************************************************************)
\* C26: the generated parser and the grammar definition agree on the keyword
\* sets: a line "a e" of two words is accepted exactly when a is listed in
\* the Action rule and e in the Entity rule of the grammar definition.
KeywordsAgree ==
    \A a, e \in Keywords :
        (ParseEnded /\ input = KeywordLine(a, e)) =>
            (~parseErr <=> (a \in Action /\ e \in Entity))

(***************************************************************************)
(* Properties of the inverse statements.                                   *)
(***************************************************************************)
InverseRun == InEvents("execute")

\* C27: inverse drivers exist.  Whenever a driver for create, start or attach
\* on an entity was dispatched, the registry has a driver for delete, stop or
\* detach on the same entity, and no statement of a reverted template fails
\* on the lookup of its driver.
InverseDriversExist ==
    /\ \A i \in DOMAIN dispatched :
          dispatched[i].action \in {"create", "start", "attach"} =>
              <<InverseAction(dispatched[i].action), dispatched[i].entity>> \in Registry
    /\ InverseRun => \A i \in DOMAIN executed : executed[i].err # "DriverNotFound"

\* the parameters of a statement of literals, as the engine hands them to a driver
Data(params) == [k \in DOMAIN params |-> params[k].d]

\* C28: the inverse statement is accepted by its driver.  The statement
\* revert builds for a successful create carries every key the delete dry
\* run of its entity asks for; for a user, Delete_User_DryRun returns no
\* error on it.
InverseAccepted ==
    \A m \in DOMAIN reverted :
        (reverted[m].action = "delete" /\ reverted[m].entity \in DOMAIN DeleteRequired) =>
            /\ DeleteRequired[reverted[m].entity] \subseteq DOMAIN reverted[m].params
            /\ reverted[m].entity = "user" =>
                  ~Delete_User_DryRun(Data(reverted[m].params), "succeed", "succeed", 1).err

(***************************************************************************)
(* Properties of the resources.                                            *)
(***************************************************************************)
\* C29: no leaked resource.  A driver call that returns an error created no
\* resource, and at the end of a run every resource the run created is the
\* result of a successful entry of the record.
NoLeakedResource ==
    /\ \A i \in DOMAIN dispatched : dispatched[i].err => dispatched[i].created = {}
    /\ (RunEnded /\ ~InverseRun) =>
          \A i \in DOMAIN dispatched :
              \A r \in dispatched[i].created :
                  \E j \in DOMAIN executed : executed[j].ok /\ executed[j].result = r

(***************************************************************************)
(* Properties of the history database.                                     *)
(***************************************************************************)
Before(a, b) ==
    \A j \in DOMAIN events : events[j] = b => \E i \in 1..(j - 1) : events[i] = a

\* C30: in the revert command the history database, once opened, is closed
\* before the reverted template is built and before any of its statements is
\* executed, and also when loading the record fails: it is open only while
\* the record is loaded.
DatabaseClosed ==
    /\ dbOpen => pc = "load" /\ events = <<"open">>
    /\ InEvents("open") /\ pc # "load" => InEvents("close") /\ ~dbOpen
    /\ Before("close", "revert") /\ Before("close", "execute")
    /\ pc \in {"revert", "print", "runTemplate"} => ~dbOpen
    /\ (InverseRun /\ dispatched # <<>>) => ~dbOpen

WitnessDatabaseClosed ==
    /\ pc = "exit"
    /\ outcome = "exit1"
    /\ events = <<"open", "load", "close">>
    /\ args # <<>>
    /\ args[1] \notin DOMAIN db
    /\ ~dbOpen

====
